---------------------------- MODULE Spec2Model ----------------------------
(***************************************************************************)
(* A model of the freshness-aware translation cache of hd2_qqbot:          *)
(*   - TranslationService.translate_text        (core/news.py)             *)
(*   - TranslationRetryQueue                    (utils/translation_retry_queue.py) *)
(*   - TranslationCache                         (utils/translation_cache.py)       *)
(*   - DispatchService / OrderService / SteamService read, refresh and     *)
(*     format operations                        (core/news.py, order.py, steam.py) *)
(* Each subsystem has its own specification over the shared variables.     *)
(***************************************************************************)
EXTENDS Integers, Sequences, FiniteSets, TLC

VARIABLES
    \* ---- TranslationRetryQueue
    retry_tasks,        \* self.retry_tasks: the list of RetryTask records
    rotation_running,   \* whether the "translation_retry_queue" rotation is started
    q_pc,               \* position of the running tick (_process_retry_queue)
    tasks_to_process,   \* keys of the tasks the running tick still has to attempt
    successful_tasks,   \* keys of the tasks the running tick translated
    in_flight,          \* the text sent to translate_text by the attempt in progress
    adds,               \* number of add_retry_task calls made so far
    \* ---- TranslationService.translate_text (one call, step by step)
    tr_pc, tr_text, tr_max, tr_attempt, tr_requests, tr_last, tr_result,
    \* ---- TranslationCache and the key-value store behind it
    cache,              \* the stored cache entries (translation_cache:<type>:<id>)
    index,              \* per content type, the stored content index (<type>_index)
    since_refresh,      \* per content type, seconds since last_refresh (-1: never stamped)
    store_up,           \* whether the key-value store answers
    api_cache,          \* per registered cache, the data stored by the cache manager
    \* ---- APICacheManager
    cache_configs,      \* self._cache_configs: the registered cache names
    is_running,         \* self._is_running
    update_tasks,       \* self._update_tasks: the names with an update loop task
    loop_sleeping,      \* the names whose update loop is in its sleep between updates
    loop_live,          \* the names whose update loop coroutine has not ended
    loop_fetching,      \* the names whose update loop awaits its fetcher or the store write
    stop_state,         \* the stop() call in progress: the tasks it has yet to cancel
    loop_failed,        \* the names whose update loop failed in its latest round
    last_payload,       \* per cache name, the payload of its latest successful update
    \* ---- one refresh cycle of the dispatches taken step by step, and its reader
    cycle,              \* the running refresh cycle: its items and the steps it has finished
    reader,             \* the list a reader got from get_dispatches and has yet to format
    refreshing,         \* per caller of the steam refresh, the refresh cycle it is running
    loop_replaced,      \* the names with a live update loop whose task start() replaced in _update_tasks
    \* ---- one call of the shared retry helper, step by step
    http,               \* exponential_backoff_retry: caller, attempt, requests, last status, result
    tr_status,          \* the status of the last response translate_text received (0: none)
    \* ---- the record of the last completed call (operation, inputs, result, effects)
    call

queueVars == <<retry_tasks, rotation_running, q_pc, tasks_to_process,
               successful_tasks, in_flight, adds>>
trVars    == <<tr_pc, tr_text, tr_max, tr_attempt, tr_requests, tr_last, tr_result>>
cacheVars == <<cache, index, since_refresh, store_up, api_cache>>
registryVars == <<cache_configs, is_running, update_tasks, loop_sleeping, loop_live, loop_fetching, stop_state, loop_failed, last_payload>>
cycleVars == <<cycle, reader, refreshing, loop_replaced>>
httpVars  == <<http, tr_status>>
vars      == <<queueVars, trVars, cacheVars, registryVars, cycleVars, httpVars, call>>

\* Python's None where a text is expected (no text is the one-element sequence "None").
None == <<"None">>
NoOutcome == "none"

(***************************************************************************)
(* Texts are sequences of characters.                                      *)
(***************************************************************************)
IsSpace(c) == c = " "

RECURSIVE LStrip(_)
LStrip(s) == IF s # <<>> /\ IsSpace(Head(s)) THEN LStrip(Tail(s)) ELSE s

RECURSIVE RStrip(_)
RStrip(s) == IF s # <<>> /\ IsSpace(s[Len(s)]) THEN RStrip(SubSeq(s, 1, Len(s) - 1)) ELSE s

\* str.strip()
Strip(s) == RStrip(LStrip(s))

\* What the translation API answers for a source text when it translates it.
Zh(s) == <<"Z">> \o s

T_abc == <<"a", "b", "c">>
T_abd == <<"a", "b", "d">>

(***************************************************************************)
(* TextMatcher (utils/text_matcher.py)                                     *)
(***************************************************************************)
\* similarity_threshold = 0.99, as a percentage
similarity_threshold_pct == 99

Min(a, b) == IF a <= b THEN a ELSE b

\* Characters re's \w matches, the basic punctuation _clean_text keeps.
WordChars == {"a", "b", "c", "d", "A", "B", "Z", "z", "1", "2"}
KeptPunct == {".", ",", "!", "?", ";", ":", "-"}

LowerChar(c) == CASE c = "A" -> "a" [] c = "B" -> "b" [] c = "Z" -> "z" [] OTHER -> c

\* re.sub(r'<[^>]+>', '', text)
RECURSIVE RemoveTags(_)
RemoveTags(s) ==
    IF s = <<>> THEN <<>>
    ELSE LET closers == { j \in 3..Len(s) : s[j] = ">" }
         IN  IF Head(s) = "<" /\ Len(s) >= 3 /\ s[2] # ">" /\ closers # {}
             THEN LET j == CHOOSE x \in closers : \A y \in closers : x <= y
                  IN  RemoveTags(SubSeq(s, j + 1, Len(s)))
             ELSE <<Head(s)>> \o RemoveTags(Tail(s))

\* re.sub(r'\s+', ' ', text)
RECURSIVE CollapseSpaces(_)
CollapseSpaces(s) ==
    IF s = <<>> THEN <<>>
    ELSE IF IsSpace(Head(s))
         THEN <<" ">> \o CollapseSpaces(LStrip(s))
         ELSE <<Head(s)>> \o CollapseSpaces(Tail(s))

\* re.sub(r'[^\w\s\u4e00-\u9fff.,!?;:\'"-]', '', text)
RemoveSpecial(s) == SelectSeq(s, LAMBDA c : c \in WordChars \/ IsSpace(c) \/ c \in KeptPunct)

Lower(s) == [i \in 1..Len(s) |-> LowerChar(s[i])]

\* TextMatcher._clean_text
CleanText(text) ==
    IF text = <<>> THEN <<>>
    ELSE Lower(Strip(RemoveSpecial(CollapseSpaces(RemoveTags(text)))))

\* difflib.SequenceMatcher.find_longest_match on a[alo..ahi], b[blo..bhi] (inclusive):
\* the longest common block, the earliest in a and then in b among the longest.
MatchBlocks(a, alo, ahi, b, blo, bhi) ==
    { m \in (alo..ahi) \X (blo..bhi) \X (1..Min(ahi - alo + 1, bhi - blo + 1)) :
        /\ m[1] + m[3] - 1 <= ahi
        /\ m[2] + m[3] - 1 <= bhi
        /\ \A d \in 0..(m[3] - 1) : a[m[1] + d] = b[m[2] + d] }

LongestMatch(a, alo, ahi, b, blo, bhi) ==
    LET ms == MatchBlocks(a, alo, ahi, b, blo, bhi)
    IN  CHOOSE m \in ms : \A n \in ms :
            \/ m[3] > n[3]
            \/ m[3] = n[3] /\ m[1] < n[1]
            \/ m[3] = n[3] /\ m[1] = n[1] /\ m[2] <= n[2]

\* The number of matched characters of get_matching_blocks.
RECURSIVE MatchCount(_, _, _, _, _, _)
MatchCount(a, alo, ahi, b, blo, bhi) ==
    IF alo > ahi \/ blo > bhi \/ MatchBlocks(a, alo, ahi, b, blo, bhi) = {} THEN 0
    ELSE LET m == LongestMatch(a, alo, ahi, b, blo, bhi)
         IN  m[3] + MatchCount(a, alo, m[1] - 1, b, blo, m[2] - 1)
                  + MatchCount(a, m[1] + m[3], ahi, b, m[2] + m[3], bhi)

\* calculate_similarity, as the pair <<2 * matches, total length>> of ratio();
\* <<1, 1>> is 1.0 and <<0, 1>> is 0.0.
CalculateSimilarity(text1, text2) ==
    IF text1 = <<>> /\ text2 = <<>> THEN <<1, 1>>
    ELSE IF text1 = <<>> \/ text2 = <<>> THEN <<0, 1>>
    ELSE LET c1 == CleanText(text1)
             c2 == CleanText(text2)
         IN  IF Len(c1) + Len(c2) = 0 THEN <<1, 1>>
             ELSE <<2 * MatchCount(c1, 1, Len(c1), c2, 1, Len(c2)), Len(c1) + Len(c2)>>

\* is_content_outdated that compares the texts for equality.
IsContentOutdatedIfDifferent(cached_text, new_text) == cached_text # new_text

\* is_content_outdated: similarity < similarity_threshold
IsContentOutdated(cached_text, new_text) ==
    LET r == CalculateSimilarity(cached_text, new_text)
    IN  r[1] * 100 < similarity_threshold_pct * r[2]

\* item.get(field, '')
GetField(item, field) == IF field \in DOMAIN item THEN item[field] ELSE <<>>

\* find_content_changes: the items are keyed by their id.
IdsOf(items) == { items[i].id : i \in 1..Len(items) }

\* {item.get('id', i): item ...}: a later item of the same id replaces an earlier one.
ById(items, id) ==
    LET hits == { i \in 1..Len(items) : items[i].id = id }
    IN  items[CHOOSE i \in hits : \A j \in hits : j <= i]

AddedItems(cached_items, new_items) ==
    { id \in IdsOf(new_items) : id \notin IdsOf(cached_items) }

UpdatedItems(cached_items, new_items, content_key) ==
    { id \in IdsOf(new_items) :
        /\ id \in IdsOf(cached_items)
        /\ IsContentOutdated(GetField(ById(cached_items, id), content_key),
                             GetField(ById(new_items, id), content_key)) }

DeletedItems(cached_items, new_items) ==
    { id \in IdsOf(cached_items) : id \notin IdsOf(new_items) }

\* item.get('id', i) for the item at position i (Python counts from 0).
ItemKey(items, i) == IF "id" \in DOMAIN items[i] THEN items[i].id ELSE i - 1

\* The keys of {item.get('id', i): item for i, item in enumerate(items)}, in
\* the order the dict keeps them: by first occurrence.
DictKeys(items) ==
    LET firsts == { i \in 1..Len(items) :
                      \A j \in 1..(i - 1) : ItemKey(items, j) # ItemKey(items, i) }
        nth(n) == CHOOSE i \in firsts : Cardinality({ k \in firsts : k <= i }) = n
    IN  [n \in 1..Cardinality(firsts) |-> ItemKey(items, nth(n))]

\* The dict's value for key: the last item of that key.
DictGet(items, key) ==
    LET hits == { i \in 1..Len(items) : ItemKey(items, i) = key }
    IN  items[CHOOSE i \in hits : \A j \in hits : j <= i]

DictHas(items, key) == \E i \in 1..Len(items) : ItemKey(items, i) = key

\* find_content_changes that compares the field values for equality.
IsUpdatedIfDifferent(cached_item, new_item, content_key) ==
    GetField(cached_item, content_key) # GetField(new_item, content_key)

\* The test of the "updated" loop of find_content_changes.
IsUpdated(cached_item, new_item, content_key) ==
    IsContentOutdated(GetField(cached_item, content_key), GetField(new_item, content_key))

\* find_content_changes: the lists (added, updated, deleted).
FindContentChanges(cached_items, new_items, content_key) ==
    LET values(items, keys) == [n \in 1..Len(keys) |-> DictGet(items, keys[n])]
        added_keys == SelectSeq(DictKeys(new_items), LAMBDA k : ~DictHas(cached_items, k))
        updated_keys ==
            SelectSeq(DictKeys(new_items),
                      LAMBDA k : /\ DictHas(cached_items, k)
                                 /\ IsUpdated(DictGet(cached_items, k),
                                              DictGet(new_items, k), content_key))
        deleted_keys == SelectSeq(DictKeys(cached_items), LAMBDA k : ~DictHas(new_items, k))
    IN  [added |-> values(new_items, added_keys),
         updated |-> values(new_items, updated_keys),
         deleted |-> values(cached_items, deleted_keys)]

(***************************************************************************)
(* TranslationCache (utils/translation_cache.py)                           *)
(***************************************************************************)
ContentTypes == {"dispatches", "orders", "steam"}

\* refresh_intervals.get(content_type, 300)
RefreshInterval(ct) ==
    CASE ct = "dispatches" -> 300
      [] ct = "orders" -> 600
      [] OTHER -> 300

\* get_translated_content that finds no entry.
GetTranslatedContentNothing(c, up, ct, id) == <<>>

\* get_translated_content: <<>> for None, <<entry>> for a stored entry.
GetTranslatedContent(c, up, ct, id) ==
    IF ~up THEN <<>>
    ELSE LET hits == { e \in c : e.content_type = ct /\ e.item_id = id }
         IN  IF hits = {} THEN <<>> ELSE <<CHOOSE e \in hits : TRUE>>

\* store_translated_content: the set is dropped when the store fails.
StoreTranslatedContent(c, up, ct, id, original_text, translated_text, metadata) ==
    IF ~up THEN c
    ELSE { e \in c : ~(e.content_type = ct /\ e.item_id = id) }
         \cup { [content_type |-> ct, item_id |-> id, original_text |-> original_text,
                 translated_text |-> translated_text, metadata |-> metadata] }

\* The descriptor store_content_list keeps of an item.
IndexItem(item) == [id |-> item.id, message |-> GetField(item, "message")]

StoreContentList(idx, up, ct, items) ==
    IF ~up THEN idx
    ELSE [idx EXCEPT ![ct] = [i \in 1..Len(items) |-> IndexItem(items[i])]]

\* get_content_list
GetContentListIgnoresFailure(idx, up, ct) == idx[ct]

\* get_content_list: [] when nothing is stored or the read fails.
GetContentList(idx, up, ct) == IF up THEN idx[ct] ELSE <<>>

WithinInterval(since, ct) == since[ct] >= 0 /\ since[ct] < RefreshInterval(ct)

\* check_content_freshness
CheckContentFreshnessNoInterval(since, idx, up, ct, new_items) ==
    LET cached_items == GetContentList(idx, up, ct)
    IN  IF cached_items = <<>> THEN TRUE
        ELSE \/ AddedItems(cached_items, new_items) # {}
             \/ UpdatedItems(cached_items, new_items, "message") # {}
             \/ DeletedItems(cached_items, new_items) # {}

CheckContentFreshness(since, idx, up, ct, new_items) ==
    IF WithinInterval(since, ct) THEN FALSE
    ELSE LET cached_items == GetContentList(idx, up, ct)
         IN  IF cached_items = <<>> THEN TRUE
             ELSE \/ AddedItems(cached_items, new_items) # {}
                  \/ UpdatedItems(cached_items, new_items, "message") # {}
                  \/ DeletedItems(cached_items, new_items) # {}

\* clear_outdated_cache that deletes nothing.
ClearOutdatedCacheKeepsAll(c, up, ct, current_item_ids) == c

\* clear_outdated_cache whose key pattern matches every content type.
ClearOutdatedCacheAllTypes(c, up, ct, current_item_ids) ==
    IF ~up THEN c ELSE { e \in c : e.item_id \in current_item_ids }

\* clear_outdated_cache: nothing is deleted when the store fails.
ClearOutdatedCache(c, up, ct, current_item_ids) ==
    IF ~up THEN c
    ELSE { e \in c : ~(e.content_type = ct /\ e.item_id \notin current_item_ids) }

\* update_refresh_timestamp
UpdateRefreshTimestamp(since, ct) == [since EXCEPT ![ct] = 0]

\* The caches hd2_cache_service registers with the cache manager that the
\* order and steam services read.
CacheNames == {"hd2_major_orders", "hd2_steam_updates"}

\* No value under the cache's key; CachedData(data) after _update_cache stored data.
NotCached == [stored |-> FALSE, data |-> <<>>]
CachedData(data) == [stored |-> TRUE, data |-> data]

\* No stop() call is in progress.
NoStop == [active |-> FALSE, left |-> {}, interrupted |-> {}]

\* APICacheManager.__init__
InitRegistryVars ==
    /\ cache_configs = {}
    /\ is_running = FALSE
    /\ update_tasks = {}
    /\ loop_sleeping = {}
    /\ loop_live = {}
    /\ loop_fetching = {}
    /\ stop_state = NoStop
    /\ loop_failed = {}
    /\ last_payload = [n \in CacheNames |-> NotCached]

\* No refresh cycle is running, and no reader holds a list.
NoCycle == [pc |-> "idle", items |-> <<>>, done |-> <<>>, evicted |-> {},
            within |-> FALSE, translations |-> 0]
NoReader == [pc |-> "idle", items |-> <<>>, stale |-> {}]

\* The callers of SteamService.refresh_cache_if_needed: the handler of the
\* "steam_cache_refresh" rotation and get_latest_steam_update.
SteamCallers == {"rotation", "reader"}

\* The caller runs no refresh cycle.
NotRefreshing == [pc |-> "idle", items |-> <<>>]

InitCycleVars ==
    /\ cycle = NoCycle /\ reader = NoReader
    /\ refreshing = [who \in SteamCallers |-> NotRefreshing]
    /\ loop_replaced = {}

\* No call of the retry helper is in progress.
NoHttp == [pc |-> "idle", caller |-> "none", attempt |-> 0, requests |-> 0, status |-> 0, ret |-> "none"]

InitHttpVars == http = NoHttp /\ tr_status = 0

InitCacheVars ==
    /\ cache = {}
    /\ index = [ct \in ContentTypes |-> <<>>]
    /\ since_refresh = [ct \in ContentTypes |-> -1]
    /\ store_up = TRUE
    /\ api_cache = [name \in CacheNames |-> NotCached]

(***************************************************************************)
(* TranslationService.translate_text                                       *)
(***************************************************************************)
\* Minimum length of the stripped text for a translation to be attempted.
MinTranslateLen == 3

\* Largest max_retries argument a call is made with (default 3, retry queue 1).
MaxRetriesArg == 3

TranslateInputs ==
    { <<>>, <<" ">>, <<"a", "b">>, T_abc, <<" ", "a", "b", "c">>, <<"a", "b", "c", " ">> }

\* The outcome of one POST to the translation API.
FailureOutcomes == {"http_error", "api_error", "bad_json", "timeout", "client_error", "exception"}

\* The translated_text field of a well-formed answer for payload text p.
ApiTexts(p) == { Zh(p), p, <<>>, <<" ">>, <<" ">> \o Zh(p) }

\* A text that translate_text returns untouched, without any request.
PassesThrough(text) == text = <<>> \/ Strip(text) = <<>> \/ Len(Strip(text)) < MinTranslateLen

\* Returns any non-empty answer, an echo of the source included.
AnswerResultAcceptsEcho(text, answer) ==
    IF Strip(answer) # <<>> THEN Strip(answer) ELSE text

\* The value translate_text returns for a well-formed answer.
AnswerResult(text, answer) ==
    LET translated_text == Strip(answer)
    IN  IF translated_text # <<>> /\ translated_text # Strip(text)
        THEN translated_text
        ELSE text

\* Every value a whole translate_text(text) call can return.
TranslateTextResults(text) ==
    IF PassesThrough(text) THEN {text}
    ELSE {text} \cup { AnswerResult(text, a) : a \in ApiTexts(Strip(text)) }

TranslateBegin(text, max_retries) ==
    /\ tr_pc = "idle"
    /\ tr_text' = text
    /\ tr_max' = max_retries
    /\ tr_attempt' = 0
    /\ tr_requests' = 0
    /\ tr_last' = NoOutcome
    /\ IF PassesThrough(text)
       THEN tr_pc' = "done" /\ tr_result' = text
       ELSE tr_pc' = "request" /\ tr_result' = None

\* A failed attempt: sleep 5 s and try again while attempt < max_retries,
\* else return the original text.
RetryAlways(kind) ==
    /\ tr_last' = kind
    /\ tr_attempt' = tr_attempt + 1
    /\ tr_pc' = "request"
    /\ tr_result' = None

OnFailure(kind) ==
    /\ tr_last' = kind
    /\ IF tr_attempt < tr_max
       THEN tr_attempt' = tr_attempt + 1 /\ tr_pc' = "request" /\ tr_result' = None
       ELSE tr_attempt' = tr_attempt /\ tr_pc' = "done" /\ tr_result' = tr_text

\* One iteration of the retry loop: one request, then the branch of its outcome.
TranslateAttemptFails(kind) ==
    /\ tr_pc = "request"
    /\ tr_requests' = tr_requests + 1
    /\ OnFailure(kind)
    /\ UNCHANGED <<tr_text, tr_max>>

TranslateAttemptAnswered(answer) ==
    /\ tr_pc = "request"
    /\ tr_requests' = tr_requests + 1
    /\ tr_last' = IF AnswerResult(tr_text, answer) = tr_text THEN "unchanged" ELSE "translated"
    /\ tr_result' = AnswerResult(tr_text, answer)
    /\ tr_pc' = "done"
    /\ UNCHANGED <<tr_text, tr_max, tr_attempt>>

TranslateReturn ==
    /\ tr_pc = "done"
    /\ tr_pc' = "idle"
    /\ UNCHANGED <<tr_text, tr_max, tr_attempt, tr_requests, tr_last, tr_result>>

InitTr ==
    /\ tr_pc = "idle" /\ tr_text = <<>> /\ tr_max = 0 /\ tr_attempt = 0
    /\ tr_requests = 0 /\ tr_last = NoOutcome /\ tr_result = None

InitQueueVars ==
    /\ retry_tasks = <<>>
    /\ rotation_running = FALSE
    /\ q_pc = "idle"
    /\ tasks_to_process = <<>>
    /\ successful_tasks = <<>>
    /\ in_flight = None
    /\ adds = 0

(***************************************************************************)
(* TranslationRetryQueue                                                   *)
(***************************************************************************)
max_retry_count == 5
retry_interval == 60

\* Seconds that pass in one Advance step of the retry-queue specification.
QueueStep == 60
\* Bound on the number of add_retry_task calls in one behaviour.
MaxAdds == 3
\* Item ids are 1..MaxId.
MaxId == 1

QueueTypes == {"dispatches", "orders"}
Ids == 1..MaxId
QueueTexts == {T_abc, T_abd}
\* A metadata dict: a tag standing for the descriptive fields, and the steam
\* fields; a key that is absent reads as the empty text.
Meta(tag) ==
    [tag |-> tag, original_title |-> <<>>, original_content |-> <<>>,
     translated_title |-> <<>>, translated_content |-> <<>>]
Metas == {Meta("m1"), Meta("m2")}

Key(task) == <<task.content_type, task.item_id>>

\* RetryTask(content_type, item_id, original_text, metadata): retry_count 0,
\* created_at now.  age is datetime.now() - created_at, capped at retry_interval;
\* fails counts the failed attempts made for the task (history only).
RetryTask(ct, id, text, meta) ==
    [content_type |-> ct, item_id |-> id, original_text |-> text, metadata |-> meta,
     retry_count |-> 0, age |-> 0, fails |-> 0]

\* Index of the first task of the pair, 0 when there is none.
FindTask(tasks, ct, id) ==
    LET hits == { i \in 1..Len(tasks) : tasks[i].content_type = ct /\ tasks[i].item_id = id }
    IN  IF hits = {} THEN 0 ELSE CHOOSE i \in hits : \A j \in hits : i <= j

\* The lookup also compares the text, so a changed text is queued a second time.
AddRetryTaskMatchText(tasks, ct, id, text, meta) ==
    LET hits == { i \in 1..Len(tasks) : tasks[i].content_type = ct /\ tasks[i].item_id = id
                                        /\ tasks[i].original_text = text }
        idx == IF hits = {} THEN 0 ELSE CHOOSE i \in hits : \A j \in hits : i <= j
    IN  IF idx # 0
        THEN [tasks EXCEPT ![idx].metadata = meta, ![idx].retry_count = @ + 1]
        ELSE Append(tasks, RetryTask(ct, id, text, meta))

\* The update branch forgets to count the new failure.
AddRetryTaskKeepsCount(tasks, ct, id, text, meta) ==
    LET idx == FindTask(tasks, ct, id)
    IN  IF idx # 0
        THEN [tasks EXCEPT ![idx].original_text = text, ![idx].metadata = meta]
        ELSE Append(tasks, RetryTask(ct, id, text, meta))

\* The list after add_retry_task's locked section.
AddRetryTask(tasks, ct, id, text, meta) ==
    LET idx == FindTask(tasks, ct, id)
    IN  IF idx # 0
        THEN [tasks EXCEPT ![idx].original_text = text,
                           ![idx].metadata = meta,
                           ![idx].retry_count = @ + 1]
        ELSE Append(tasks, RetryTask(ct, id, text, meta))

\* rotation_manager.start_rotation and stop_rotation for the rotation
\* "translation_retry_queue": the tick is running after the one and not
\* running after the other; neither suspends the caller.
StartRotation(running) == TRUE

StopRotation(running) == FALSE

\* add_retry_task starts the rotation only when the list has two tasks.
NeedsStartAtTwo(tasks) == Len(tasks) = 2

\* add_retry_task's test "the queue was empty before" on the list it leaves.
NeedsStart(tasks) == Len(tasks) = 1

add_retry_task(ct, id, text, meta) ==
    /\ adds < MaxAdds
    /\ adds' = adds + 1
    /\ retry_tasks' = AddRetryTask(retry_tasks, ct, id, text, meta)
    /\ rotation_running' = IF NeedsStart(retry_tasks') THEN StartRotation(rotation_running)
                            ELSE rotation_running
    /\ call' = [op |-> "add_retry_task", existed |-> FindTask(retry_tasks, ct, id) # 0,
                 abandoned |-> {}, started |-> ~rotation_running /\ rotation_running']
    /\ UNCHANGED <<q_pc, tasks_to_process, successful_tasks, in_flight>>

IsDue(task) == task.age >= retry_interval

\* The due tasks a tick attempts, and the list it leaves after dropping the
\* due tasks that used up their retries.
ShouldProcessOffByOne(task) == IsDue(task) /\ task.retry_count <= max_retry_count

ShouldProcess(task) == IsDue(task) /\ task.retry_count < max_retry_count

ShouldRemove(task) == IsDue(task) /\ ~ShouldProcess(task)

KeysOf(tasks) == [i \in 1..Len(tasks) |-> Key(tasks[i])]

\* The tasks a tick gives up on.
RemovedTasks(tasks) == { tasks[j] : j \in { i \in 1..Len(tasks) : ShouldRemove(tasks[i]) } }

\* Giving a task up stores its original text as its translation.
CacheAfterAbandonKeepsOriginal(c, removed) ==
    c \cup { [content_type |-> t.content_type, item_id |-> t.item_id,
               original_text |-> t.original_text, translated_text |-> t.original_text,
               metadata |-> t.metadata] : t \in removed }

\* The cache after a tick gave up the tasks `removed`: the tick logs a warning
\* and removes them from the list; it makes no call of the translation cache.
CacheAfterAbandon(c, removed) == c

\* The attempt that starts for the task of key k: the key and the task's
\* retry_count at that moment.
AttemptOf(tasks, k) == <<k[1], k[2], tasks[FindTask(tasks, k[1], k[2])].retry_count>>

\* _process_retry_queue up to the first await of _process_retry_tasks: the
\* empty check, the locked selection and removal, and, with no await in
\* between, the translate_text call for the first selected task.
process_retry_queue ==
    /\ rotation_running
    /\ q_pc = "idle"
    /\ IF retry_tasks = <<>>
       THEN /\ rotation_running' = StopRotation(rotation_running)
            /\ call' = [op |-> "tick", existed |-> FALSE, abandoned |-> {}, removed |-> {},
                         attempt |-> <<>>]
            /\ UNCHANGED <<retry_tasks, q_pc, tasks_to_process, successful_tasks, in_flight,
                           adds, cache>>
       ELSE /\ tasks_to_process' = KeysOf(SelectSeq(retry_tasks, ShouldProcess))
            /\ retry_tasks' = SelectSeq(retry_tasks, LAMBDA t : ~ShouldRemove(t))
            /\ cache' = CacheAfterAbandon(cache, RemovedTasks(retry_tasks))
            /\ q_pc' = IF tasks_to_process' # <<>> THEN "awaiting" ELSE "idle"
            /\ in_flight' = IF tasks_to_process' # <<>>
                            THEN retry_tasks'[FindTask(retry_tasks', tasks_to_process'[1][1],
                                                       tasks_to_process'[1][2])].original_text
                            ELSE in_flight
            /\ call' = [op |-> "tick", existed |-> TRUE,
                         abandoned |-> { t.fails : t \in RemovedTasks(retry_tasks) },
                         removed |-> { Key(t) : t \in RemovedTasks(retry_tasks) },
                         attempt |-> IF tasks_to_process' # <<>>
                                     THEN AttemptOf(retry_tasks', tasks_to_process'[1])
                                     ELSE <<>>]
            /\ UNCHANGED <<rotation_running, successful_tasks, adds>>

\* _process_retry_tasks: after the sleep that follows an attempt, the call of
\* translate_text for the next task.
AttemptStart ==
    /\ q_pc = "processing"
    /\ LET k == Head(tasks_to_process)
           i == FindTask(retry_tasks, k[1], k[2])
       IN  in_flight' = retry_tasks[i].original_text
    /\ q_pc' = "awaiting"
    /\ call' = [op |-> "attempt_start", existed |-> TRUE, abandoned |-> {},
                 attempt |-> AttemptOf(retry_tasks, Head(tasks_to_process))]
    /\ UNCHANGED <<retry_tasks, rotation_running, tasks_to_process, successful_tasks, adds>>

\* An attempt counts as translated whenever translate_text returned a text.
IsTranslatedIfAny(translated_text, original_text) == translated_text # <<>>

\* `if translated_text and translated_text != task.original_text`
IsTranslated(translated_text, original_text) ==
    translated_text # <<>> /\ translated_text # original_text

\* _process_retry_tasks: translate_text returned `translated_text`.
AttemptFinish(translated_text) ==
    /\ q_pc = "awaiting"
    /\ LET k == Head(tasks_to_process)
           i == FindTask(retry_tasks, k[1], k[2])
           task == retry_tasks[i]
       IN  IF IsTranslated(translated_text, task.original_text)
           THEN /\ cache' = StoreTranslatedContent(cache, store_up, task.content_type,
                                                    task.item_id, task.original_text,
                                                    translated_text, task.metadata)
                /\ successful_tasks' = Append(successful_tasks, k)
                /\ call' = [op |-> "attempt_ok", existed |-> TRUE, abandoned |-> {}]
                /\ UNCHANGED retry_tasks
           ELSE /\ retry_tasks' = [retry_tasks EXCEPT ![i].retry_count = @ + 1,
                                                      ![i].age = 0,
                                                      ![i].fails = @ + 1]
                /\ call' = [op |-> "attempt_failed", existed |-> TRUE, abandoned |-> {}]
                /\ UNCHANGED <<successful_tasks, cache>>
    /\ tasks_to_process' = Tail(tasks_to_process)
    /\ q_pc' = IF Tail(tasks_to_process) = <<>> THEN "finishing" ELSE "processing"
    /\ in_flight' = None
    /\ UNCHANGED <<rotation_running, adds>>

\* _process_retry_tasks: the locked removal of the translated tasks.
FinishPass ==
    /\ q_pc = "finishing"
    /\ retry_tasks' = SelectSeq(retry_tasks,
                                LAMBDA t : \A j \in 1..Len(successful_tasks) :
                                              successful_tasks[j] # Key(t))
    /\ successful_tasks' = <<>>
    /\ q_pc' = "idle"
    /\ call' = [op |-> "finish", existed |-> TRUE, abandoned |-> {}]
    /\ UNCHANGED <<rotation_running, tasks_to_process, in_flight, adds>>

\* The steps of the queue whose writes to the list and to the tasks are made
\* inside `async with self._lock`: add_retry_task, the selection and removal
\* of a tick, and the removal of the translated tasks at the end of a pass.
LockedSteps == {"add_retry_task", "tick", "finish"}

\* TranslationRetryQueue.stop, called while no tick is in progress: the
\* rotation is stopped and the list is cleared.
queue_stop ==
    /\ q_pc = "idle"
    /\ rotation_running' = StopRotation(rotation_running)
    /\ retry_tasks' = <<>>
    /\ call' = [op |-> "stop", existed |-> retry_tasks # <<>>, abandoned |-> {}]
    /\ UNCHANGED <<q_pc, tasks_to_process, successful_tasks, in_flight, adds>>

\* The key-value store stops or resumes answering.
QueueStoreToggle ==
    /\ store_up' = ~store_up
    /\ call' = [op |-> "store", existed |-> FALSE, abandoned |-> {}]
    /\ UNCHANGED <<queueVars, cache, index, since_refresh, api_cache>>

\* Time passes: every task gets older.
Advance ==
    /\ \E i \in 1..Len(retry_tasks) : retry_tasks[i].age < retry_interval
    /\ retry_tasks' = [i \in 1..Len(retry_tasks) |->
                          [retry_tasks[i] EXCEPT !.age =
                              IF @ + QueueStep >= retry_interval THEN retry_interval
                              ELSE @ + QueueStep]]
    /\ call' = [op |-> "advance", existed |-> FALSE, abandoned |-> {}]
    /\ UNCHANGED <<rotation_running, q_pc, tasks_to_process, successful_tasks, in_flight, adds>>

NoCall == [op |-> "none"]

InitTranslate == InitTr /\ InitQueueVars /\ InitCacheVars /\ InitRegistryVars /\ InitCycleVars /\ InitHttpVars /\ call = NoCall

NextTranslate ==
    \/ \E text \in TranslateInputs, m \in 0..MaxRetriesArg :
          TranslateBegin(text, m) /\ UNCHANGED <<queueVars, cacheVars, registryVars, cycleVars, httpVars, call>>
    \/ \E kind \in FailureOutcomes :
          TranslateAttemptFails(kind) /\ UNCHANGED <<queueVars, cacheVars, registryVars, cycleVars, httpVars, call>>
    \/ \E answer \in ApiTexts(Strip(tr_text)) :
          TranslateAttemptAnswered(answer) /\ UNCHANGED <<queueVars, cacheVars, registryVars, cycleVars, httpVars, call>>
    \/ TranslateReturn /\ UNCHANGED <<queueVars, cacheVars, registryVars, cycleVars, httpVars, call>>

SpecTranslate == InitTranslate /\ [][NextTranslate]_vars


(***************************************************************************)
(* Claims about translate_text                                             *)
(***************************************************************************)
\* C10: a translate_text call makes at most max_retries + 1 requests, ends by
\* returning a value and never by raising, and when its last attempt failed
\* (HTTP status, API error, malformed payload, timeout, network error, any
\* other exception) the value is the original text.
C10_BoundedRequestsOriginalOnFailure ==
    /\ tr_pc \in {"idle", "request", "done"}
    /\ tr_requests <= tr_max + 1
    /\ tr_pc = "request" => tr_requests = tr_attempt /\ tr_attempt <= tr_max
    /\ tr_pc = "done" =>
          /\ tr_result # None
          /\ tr_last \in FailureOutcomes => tr_result = tr_text /\ tr_requests = tr_max + 1

C10_Witness ==
    /\ tr_pc = "done"
    /\ tr_last \in FailureOutcomes
    /\ tr_max = MaxRetriesArg
    /\ tr_requests = tr_max + 1
    /\ tr_result = tr_text

(***************************************************************************)
(* DispatchService (core/news.py)                                          *)
(***************************************************************************)
\* The refresh and the cold read keep the first 5 items of the payload.
TopN == 5

\* Dispatch ids are 1..DispatchMaxId; a payload holds at most MaxPayloadLen items.
DispatchMaxId == 2
MaxPayloadLen == 2
\* get_dispatches is called with limit in 1..MaxLimit.
MaxLimit == 2
\* Seconds that pass in one AdvanceRefresh step.
RefreshStep == 300
\* add_retry_task calls made by the dispatch service in one behaviour.
MaxDispatchAdds == 1

\* items[:n]
PrefixAll(items, n) == items

Prefix(items, n) == SubSeq(items, 1, Min(n, Len(items)))

DispatchMessages == {T_abc, T_abd}
DispatchItems == [id : 1..DispatchMaxId, message : DispatchMessages]

\* The payloads of the dispatches endpoint: newest (highest id) first.
Payloads ==
    { p \in UNION { [1..n -> DispatchItems] : n \in 0..MaxPayloadLen } :
        \A i, j \in 1..Len(p) : i < j => p[i].id > p[j].id }

\* fetch_dispatches_from_api: the payload, or None after the retries are used up.
FetchFailed == [ok |-> FALSE, data |-> <<>>]
FetchResults == {FetchFailed} \cup { [ok |-> TRUE, data |-> p] : p \in Payloads }

\* `not new_dispatches`
NoData(f) == ~f.ok \/ f.data = <<>>

\* What translate_text returns when the API does (ok) or does not translate.
TranslateOutcome(text, ok) ==
    IF ok /\ ~PassesThrough(text) THEN Zh(Strip(text)) ELSE text

\* The metadata stored with a dispatch (published, type, a time stamp).
DispatchMeta == Meta("m1")

\* clean_game_text: <i=N> and </i> become a space, whitespace runs collapse.
RECURSIVE ReplaceGameTags(_)
ReplaceGameTags(s) ==
    IF s = <<>> THEN <<>>
    ELSE IF Len(s) >= 4 /\ SubSeq(s, 1, 4) = <<"<", "/", "i", ">">>
         THEN <<" ">> \o ReplaceGameTags(SubSeq(s, 5, Len(s)))
    ELSE LET digits == {"0", "1", "2", "3", "4", "5", "6", "7", "8", "9"}
             ends == { j \in 5..Len(s) : s[j] = ">" /\ \A k \in 4..(j - 1) : s[k] \in digits }
         IN  IF Len(s) >= 5 /\ SubSeq(s, 1, 3) = <<"<", "i", "=">> /\ ends # {}
             THEN LET j == CHOOSE x \in ends : TRUE
                  IN  <<" ">> \o ReplaceGameTags(SubSeq(s, j + 1, Len(s)))
             ELSE <<Head(s)>> \o ReplaceGameTags(Tail(s))

CleanGameText(text) ==
    IF text = <<>> THEN text ELSE Strip(CollapseSpaces(ReplaceGameTags(text)))

\* _translate_and_cache_dispatches from item n on.  st carries the cache, the
\* retry-task list, whether the retry rotation was started, and the numbers of
\* translate_text and add_retry_task calls made.
RECURSIVE TranslateAndCacheDispatches(_, _, _, _, _)
TranslateAndCacheDispatches(dispatches, oc, n, up, st) ==
    IF n > Len(dispatches) THEN st
    ELSE LET item_id == dispatches[n].id
             original_message == dispatches[n].message
             cached_translation == GetTranslatedContent(st.cache, up, "dispatches", item_id)
         IN  IF original_message = <<>>
             THEN TranslateAndCacheDispatches(dispatches, oc, n + 1, up, st)
             ELSE IF cached_translation = <<>>
                     \/ cached_translation[1].original_text # original_message
             THEN LET translated_text == TranslateOutcome(original_message, oc[n])
                  IN  IF translated_text # <<>> /\ translated_text # original_message
                      THEN TranslateAndCacheDispatches(dispatches, oc, n + 1, up,
                             [st EXCEPT !.cache = StoreTranslatedContent(@, up, "dispatches",
                                                     item_id, original_message,
                                                     translated_text, DispatchMeta),
                                        !.translations = @ + 1])
                      ELSE LET tasks == AddRetryTask(st.tasks, "dispatches", item_id,
                                                     original_message, DispatchMeta)
                           IN  TranslateAndCacheDispatches(dispatches, oc, n + 1, up,
                                 [st EXCEPT !.tasks = tasks,
                                            !.started = @ \/ Len(tasks) = 1,
                                            !.translations = @ + 1,
                                            !.added = @ + 1])
             ELSE TranslateAndCacheDispatches(dispatches, oc, n + 1, up, st)

PassStart(c) == [cache |-> c, tasks |-> retry_tasks, started |-> rotation_running,
                 translations |-> 0, added |-> 0]

Outcomes == [1..MaxPayloadLen -> BOOLEAN]

DispatchCall(op, limit, within, cold, ret, items, fetches, passes, translations) ==
    [op |-> op, limit |-> limit, within |-> within, cold |-> cold, ret |-> ret,
     items |-> items, fetches |-> fetches, passes |-> passes, translations |-> translations]

\* The record of a refresh_cache_if_needed call that ran a refresh cycle, with
\* the ids whose entries clear_outdated_cache deleted.
RefreshCall(within, translations, evicted) ==
    [op |-> "refresh_cache_if_needed", limit |-> 0, within |-> within, cold |-> FALSE,
     ret |-> "True", items |-> <<>>, fetches |-> 1, passes |-> 1,
     translations |-> translations, evicted |-> evicted]

\* The translation outcomes of one pass over items; positions past the end
\* of items are not used.
OutcomesFor(items) == { oc \in Outcomes : \A i \in 1..MaxPayloadLen : i > Len(items) => oc[i] }

\* DispatchService.refresh_cache_if_needed whose fetch returned f: compare
\* with the stored index, and on a change clear, translate, store the index
\* and stamp.
refresh_cache(f) ==
      LET within == WithinInterval(since_refresh, "dispatches")
          top == Prefix(f.data, TopN)
          needs_refresh == CheckContentFreshness(since_refresh, index, store_up, "dispatches", top)
          cleared == ClearOutdatedCache(cache, store_up, "dispatches", IdsOf(top))
      IN  IF NoData(f) \/ ~needs_refresh
          THEN /\ call' = DispatchCall("refresh_cache_if_needed", 0, within, FALSE, "False",
                                       <<>>, 1, 0, 0)
               /\ UNCHANGED <<cache, index, since_refresh, retry_tasks, rotation_running, adds>>
          ELSE \E oc \in OutcomesFor(top) :
                 LET st == TranslateAndCacheDispatches(top, oc, 1, store_up, PassStart(cleared))
                 IN  /\ adds + st.added <= MaxDispatchAdds
                     /\ cache' = st.cache
                     /\ retry_tasks' = st.tasks
                     /\ rotation_running' = st.started
                     /\ adds' = adds + st.added
                     /\ index' = StoreContentList(index, store_up, "dispatches", top)
                     /\ since_refresh' = UpdateRefreshTimestamp(since_refresh, "dispatches")
                     /\ call' = RefreshCall(within, st.translations,
                                            { e.item_id : e \in cache \ cleared })

refresh_cache_if_needed == \E f \in FetchResults : refresh_cache(f)

\* DispatchService.get_dispatches(limit)
get_dispatches(limit) ==
    LET cached_dispatches == GetContentList(index, store_up, "dispatches")
    IN  IF cached_dispatches # <<>>
        THEN /\ call' = DispatchCall("get_dispatches", limit, FALSE, FALSE, "list",
                                     Prefix(cached_dispatches, limit), 0, 0, 0)
             /\ UNCHANGED <<cache, index, since_refresh, retry_tasks, rotation_running, adds>>
        ELSE \E f \in FetchResults :
               IF NoData(f)
               THEN /\ call' = DispatchCall("get_dispatches", limit, FALSE, TRUE, "None",
                                            <<>>, 1, 0, 0)
                    /\ UNCHANGED <<cache, index, since_refresh, retry_tasks,
                                   rotation_running, adds>>
               ELSE \E oc \in OutcomesFor(Prefix(f.data, TopN)) :
                      LET top == Prefix(f.data, TopN)
                          st == TranslateAndCacheDispatches(top, oc, 1, store_up,
                                                            PassStart(cache))
                      IN  /\ adds + st.added <= MaxDispatchAdds
                          /\ cache' = st.cache
                          /\ retry_tasks' = st.tasks
                          /\ rotation_running' = st.started
                          /\ adds' = adds + st.added
                          /\ index' = StoreContentList(index, store_up, "dispatches", top)
                          /\ call' = DispatchCall("get_dispatches", limit, FALSE, TRUE, "list",
                                                  Prefix(f.data, limit), 1, 1, st.translations)
                          /\ UNCHANGED since_refresh

\* The content line format_dispatch_messages renders for one dispatch, and
\* whether it called translate_text for it.
FormatNeedsTranslation(c, up, dispatch) ==
    LET cached_translation == GetTranslatedContent(c, up, "dispatches", dispatch.id)
    IN  /\ dispatch.message # <<>>
        /\ \/ cached_translation = <<>>
           \/ cached_translation[1].translated_text = <<>>

FormatContent(c, up, dispatch, ok) ==
    LET original_message == dispatch.message
        cached_translation == GetTranslatedContent(c, up, "dispatches", dispatch.id)
        translated_content == TranslateOutcome(original_message, ok)
    IN  CleanGameText(
            IF original_message = <<>> THEN original_message
            ELSE IF ~FormatNeedsTranslation(c, up, dispatch)
                 THEN cached_translation[1].translated_text
            ELSE IF translated_content # <<>> /\ translated_content # original_message
                 THEN translated_content
            ELSE original_message)

\* DispatchService.format_dispatch_messages(dispatches): per dispatch its id
\* and the content line of its message, or the single "no active dispatches"
\* message.
NoDispatchesMessage == [id |-> 0, message |-> <<"-">>]

format_dispatch_messages(dispatches) ==
    /\ \E oc \in OutcomesFor(dispatches) : call' = DispatchCall("format_dispatch_messages", 0, FALSE, FALSE, "list",
                 IF dispatches = <<>> THEN <<NoDispatchesMessage>>
                 ELSE [i \in 1..Len(dispatches) |->
                          [id |-> dispatches[i].id,
                           message |-> FormatContent(cache, store_up, dispatches[i], oc[i])]],
                 0, 0,
                 Cardinality({ i \in 1..Len(dispatches) :
                                 FormatNeedsTranslation(cache, store_up, dispatches[i]) }))
    /\ UNCHANGED <<cache, index, since_refresh, retry_tasks, rotation_running, adds>>

\* The message list the format operations return from their exception handler.
FormatFailedMessage == [id |-> 0, message |-> <<"!">>]

\* The operations whose whole body is a try block with an `except Exception`
\* handler that returns a value.
GuardedOps == {"get_dispatches", "refresh_cache_if_needed",
               "format_dispatch_messages", "format_order_messages"}

\* A handler that lets the exception out.
ExceptReturnReraises(op) == "raise"

\* What the handler of op returns.
ExceptReturn(op) ==
    CASE op = "get_dispatches" -> "None"
      [] op = "refresh_cache_if_needed" -> "False"
      [] OTHER -> "list"

ExceptItems(op) ==
    IF op \in {"format_dispatch_messages", "format_order_messages"}
    THEN <<FormatFailedMessage>> ELSE <<>>

\* A call of op in which a statement of the try block raised before any
\* store call (data that is not of the expected shape: a payload or index that
\* is not a list, an item that is not a dict): the handler logs and returns.
handler_raises(op) ==
    /\ call' = [op |-> op, limit |-> 0, within |-> FALSE, cold |-> FALSE,
                 ret |-> ExceptReturn(op), items |-> ExceptItems(op), fetches |-> 0,
                 passes |-> 0, translations |-> 0, raised |-> TRUE]
    /\ UNCHANGED <<cache, index, since_refresh, retry_tasks, rotation_running, adds>>

\* Time passes.
AdvanceRefresh ==
    /\ \E ct \in ContentTypes : since_refresh[ct] >= 0 /\ since_refresh[ct] < RefreshInterval(ct)
    /\ since_refresh' = [ct \in ContentTypes |->
          IF since_refresh[ct] < 0 THEN since_refresh[ct]
          ELSE Min(since_refresh[ct] + RefreshStep, RefreshInterval(ct))]
    /\ call' = DispatchCall("advance", 0, FALSE, FALSE, "None", <<>>, 0, 0, 0)
    /\ UNCHANGED <<cache, index, retry_tasks, rotation_running, adds>>

\* A tick of the retry queue that finds task i due and whose translation
\* succeeds: the translation is stored and the task leaves the queue.
retry_pass_succeeds ==
    /\ rotation_running
    /\ \E i \in 1..Len(retry_tasks) :
          LET task == retry_tasks[i]
              translated_text == TranslateOutcome(task.original_text, TRUE)
          IN  /\ translated_text # <<>> /\ translated_text # task.original_text
              /\ cache' = StoreTranslatedContent(cache, store_up, task.content_type,
                                                  task.item_id, task.original_text,
                                                  translated_text, task.metadata)
              /\ retry_tasks' = SelectSeq(retry_tasks, LAMBDA t : Key(t) # Key(task))
    /\ call' = DispatchCall("retry_pass", 0, FALSE, FALSE, "None", <<>>, 0, 0, 1)
    /\ UNCHANGED <<index, since_refresh, rotation_running, adds>>

\* The key-value store stops or resumes answering.
StoreToggle ==
    /\ store_up' = ~store_up
    /\ call' = DispatchCall("store", 0, FALSE, FALSE, "None", <<>>, 0, 0, 0)
    /\ UNCHANGED <<cache, index, since_refresh, retry_tasks, rotation_running, adds>>

(***************************************************************************)
(* CacheManager, OrderService and SteamService reads                       *)
(***************************************************************************)
\* Steam update ids are 1..SteamMaxId.
SteamMaxId == 2

SteamUpdates == [id : 1..SteamMaxId, title : {T_abc}, content : {<<>>, T_abd}]
\* A major order with its setting's overrideTitle, overrideBrief and
\* taskDescription.
OrderItems == [id : 1..SteamMaxId, title : {T_abc}, brief : {<<>>, T_abd}, task : {<<>>, T_abd}]

\* What a cache's api_fetcher returns: None, or the list (newest first).  The
\* services use only the first steam update.
FetcherResults(name) ==
    {FetchFailed} \cup {[ok |-> TRUE, data |-> <<>>]}
    \cup { [ok |-> TRUE, data |-> <<item>>] :
             item \in IF name = "hd2_steam_updates" THEN SteamUpdates ELSE OrderItems }

\* get_cached_data that never finds data.
GetCachedDataNothing(ac, up, name) == NotCached

\* CacheManager.get_cached_data: the stored data, None when there is none or
\* the store fails.
GetCachedData(ac, up, name) == IF up THEN ac[name] ELSE NotCached

\* CacheManager._update_cache: fetch, and store the data unless it is None.
update_cache(name) ==
    \E f \in FetcherResults(name) :
      /\ api_cache' = IF f.ok /\ store_up
                      THEN [api_cache EXCEPT ![name] = CachedData(f.data)]
                      ELSE api_cache
      /\ call' = DispatchCall("update_cache", 0, FALSE, FALSE,
                              IF f.ok /\ store_up THEN "True" ELSE "False", <<>>, 1, 0, 0)
      /\ UNCHANGED <<cache, index, since_refresh>>

\* f"{title}\n{content}" if both, else the one that is not empty
JoinLines(title, content) ==
    IF title # <<>> /\ content # <<>> THEN title \o <<"\n">> \o content
    ELSE IF title # <<>> THEN title ELSE content

SteamMeta(original_title, original_content, translated_title, translated_content) ==
    [tag |-> "steam", original_title |-> original_title,
     original_content |-> original_content,
     translated_title |-> IF translated_title # <<>> THEN translated_title
                          ELSE original_title,
     translated_content |-> IF translated_content # <<>> THEN translated_content
                            ELSE original_content]

\* The translate_text calls _translate_and_cache_updates makes for one update.
SteamTranslations(c, up, update) ==
    LET cached_translation == GetTranslatedContent(c, up, "steam", update.id)
        original_text == JoinLines(update.title, update.content)
    IN  IF update.title = <<>> /\ update.content = <<>> THEN 0
        ELSE IF cached_translation = <<>>
                \/ cached_translation[1].original_text # original_text
             THEN (IF update.title # <<>> THEN 1 ELSE 0)
                  + (IF update.content # <<>> THEN 1 ELSE 0)
        ELSE 0

\* _translate_and_cache_updates for one update: the cache after it.
TranslateAndCacheUpdate(c, up, update, ok_title, ok_content) ==
    LET original_title == update.title
        original_content == update.content
        original_text == JoinLines(original_title, original_content)
        title_result == TranslateOutcome(original_title, ok_title)
        content_result == TranslateOutcome(original_content, ok_content)
        translated_title ==
            IF original_title # <<>> /\ title_result # <<>> /\ title_result # original_title
            THEN title_result ELSE <<>>
        translated_content ==
            IF original_content # <<>> /\ content_result # <<>>
               /\ content_result # original_content
            THEN content_result ELSE <<>>
        final_title == IF translated_title # <<>> THEN translated_title ELSE original_title
        final_content == IF translated_content # <<>> THEN translated_content
                         ELSE original_content
    IN  IF SteamTranslations(c, up, update) = 0 THEN c
        ELSE IF translated_title = <<>> /\ translated_content = <<>> THEN c
        ELSE StoreTranslatedContent(c, up, "steam", update.id, original_text,
                                    JoinLines(final_title, final_content),
                                    SteamMeta(original_title, original_content,
                                              translated_title, translated_content))

\* SteamService.refresh_cache_if_needed with fetch result f and translation
\* outcomes ok_title, ok_content: the cache, index and refresh times after it,
\* its return value and the translate_text calls it made.
SteamRefresh(f, ok_title, ok_content) ==
    LET latest_update == Prefix(f.data, 1)
        needs_refresh == CheckContentFreshness(since_refresh, index, store_up, "steam",
                                               latest_update)
        cleared == ClearOutdatedCache(cache, store_up, "steam", IdsOf(latest_update))
    IN  IF NoData(f) \/ ~needs_refresh
        THEN [cache |-> cache, index |-> index, since |-> since_refresh,
              ret |-> "False", passes |-> 0, translations |-> 0]
        ELSE [cache |-> TranslateAndCacheUpdate(cleared, store_up, latest_update[1],
                                                ok_title, ok_content),
              index |-> StoreContentList(index, store_up, "steam", latest_update),
              since |-> UpdateRefreshTimestamp(since_refresh, "steam"),
              ret |-> "True", passes |-> 1,
              translations |-> SteamTranslations(cleared, store_up, latest_update[1])]

\* SteamService.refresh_cache_if_needed whose fetch returned f and whose
\* translate_text calls succeed as ok_title and ok_content say.
steam_refresh(f, ok_title, ok_content) ==
    LET r == SteamRefresh(f, ok_title, ok_content)
    IN  /\ cache' = r.cache
        /\ index' = r.index
        /\ since_refresh' = r.since
        /\ call' = DispatchCall("steam_refresh_cache_if_needed", 0,
                                WithinInterval(since_refresh, "steam"), FALSE, r.ret,
                                <<>>, 1, r.passes, r.translations)
        /\ UNCHANGED api_cache

steam_refresh_cache_if_needed ==
    \E f \in FetcherResults("hd2_steam_updates"), ok_title, ok_content \in BOOLEAN :
        steam_refresh(f, ok_title, ok_content)

\* The cache entry get_latest_steam_update accepts: it has metadata with an
\* original title or content.
IsValidSteamEntry(cached_item_details) ==
    /\ cached_item_details # <<>>
    /\ \/ cached_item_details[1].metadata.original_title # <<>>
       \/ cached_item_details[1].metadata.original_content # <<>>

\* SteamService.get_latest_steam_update
get_latest_steam_update ==
    LET cached_updates == GetCachedData(api_cache, store_up, "hd2_steam_updates").data
        cached_item_details ==
            GetTranslatedContent(cache, store_up, "steam", cached_updates[1].id)
    IN  IF cached_updates = <<>>
        THEN /\ call' = DispatchCall("get_latest_steam_update", 1, FALSE, TRUE, "None",
                                     <<>>, 0, 0, 0)
             /\ UNCHANGED <<cache, index, since_refresh, api_cache>>
        ELSE IF IsValidSteamEntry(cached_item_details)
        THEN /\ call' = DispatchCall("get_latest_steam_update", 1, FALSE, FALSE, "item",
                                     Prefix(cached_updates, 1), 0, 0, 0)
             /\ UNCHANGED <<cache, index, since_refresh, api_cache>>
        ELSE \E f \in FetcherResults("hd2_steam_updates"), ok_title, ok_content \in BOOLEAN :
               LET r == SteamRefresh(f, ok_title, ok_content)
               IN  /\ cache' = r.cache
                   /\ index' = r.index
                   /\ since_refresh' = r.since
                   /\ call' = DispatchCall("get_latest_steam_update", 1, FALSE, FALSE,
                                           "item", Prefix(cached_updates, 1), 1,
                                           r.passes, r.translations)
                   /\ UNCHANGED api_cache

\* OrderService.get_current_orders
get_current_orders ==
    LET orders_data == GetCachedData(api_cache, store_up, "hd2_major_orders").data
    IN  /\ call' = IF orders_data # <<>>
                   THEN DispatchCall("get_current_orders", 0, FALSE, FALSE, "list",
                                     orders_data, 0, 0, 0)
                   ELSE DispatchCall("get_current_orders", 0, FALSE, TRUE, "None",
                                     <<>>, 0, 0, 0)
        /\ UNCHANGED <<cache, index, since_refresh, api_cache>>

\* f"{title}\n{brief}\n{task}"
JoinThree(title, brief, task) == title \o <<"\n">> \o brief \o <<"\n">> \o task

OrderMeta(translated_title, translated_brief, translated_task, original_title, original_brief, original_task) ==
    [tag |-> "orders",
     translated_title |-> translated_title, translated_brief |-> translated_brief,
     translated_task |-> translated_task,
     original_title |-> original_title, original_brief |-> original_brief,
     original_task |-> original_task]

\* The translate_text calls _translate_and_cache_orders makes for one order.
OrderTranslations(c, up, order) ==
    LET cached_translation == GetTranslatedContent(c, up, "orders", order.id)
        original_text == JoinThree(order.title, order.brief, order.task)
    IN  IF order.title = <<>> /\ order.brief = <<>> /\ order.task = <<>> THEN 0
        ELSE IF cached_translation = <<>>
                \/ cached_translation[1].original_text # original_text
             THEN (IF order.title # <<>> THEN 1 ELSE 0)
                  + (IF order.brief # <<>> THEN 1 ELSE 0)
                  + (IF order.task # <<>> THEN 1 ELSE 0)
        ELSE 0

\* A field's translation as _translate_and_cache_orders keeps it: "" unless
\* translate_text returned something other than the field.
KeptTranslation(original, ok) ==
    LET result == TranslateOutcome(original, ok)
    IN  IF original # <<>> /\ result # <<>> /\ result # original THEN result ELSE <<>>

\* A failed field is stored empty.
FinalFieldBlank(translated, original) == translated

\* final_x = translated_x if translated_x else original_x
FinalField(translated, original) == IF translated # <<>> THEN translated ELSE original

\* _translate_and_cache_orders for one order: the cache after it.
TranslateAndCacheOrder(c, up, order, ok_title, ok_brief, ok_task) ==
    LET original_title == order.title
        original_brief == order.brief
        original_task == order.task
        original_text == JoinThree(original_title, original_brief, original_task)
        translated_title == KeptTranslation(original_title, ok_title)
        translated_brief == KeptTranslation(original_brief, ok_brief)
        translated_task == KeptTranslation(original_task, ok_task)
        final_title == FinalField(translated_title, original_title)
        final_brief == FinalField(translated_brief, original_brief)
        final_task == FinalField(translated_task, original_task)
    IN  IF OrderTranslations(c, up, order) = 0 THEN c
        ELSE IF translated_title = <<>> /\ translated_brief = <<>> /\ translated_task = <<>>
        THEN c
        ELSE StoreTranslatedContent(c, up, "orders", order.id, original_text,
                                    JoinThree(final_title, final_brief, final_task),
                                    OrderMeta(translated_title, translated_brief,
                                              translated_task, original_title,
                                              original_brief, original_task))

\* OrderService.refresh_cache_if_needed with translation outcomes ok_title,
\* ok_brief, ok_task: the cache, index and refresh times after it, its return
\* value and the translate_text calls it made.  The cached list holds at most
\* one order.
OrderRefresh(ok_title, ok_brief, ok_task) ==
    LET new_orders == GetCachedData(api_cache, store_up, "hd2_major_orders").data
        needs_refresh == CheckContentFreshness(since_refresh, index, store_up, "orders",
                                               new_orders)
        cleared == ClearOutdatedCache(cache, store_up, "orders", IdsOf(new_orders))
    IN  IF new_orders = <<>> \/ ~needs_refresh
        THEN [cache |-> cache, index |-> index, since |-> since_refresh,
              ret |-> "False", passes |-> 0, translations |-> 0]
        ELSE [cache |-> TranslateAndCacheOrder(cleared, store_up, new_orders[1],
                                               ok_title, ok_brief, ok_task),
              index |-> StoreContentList(index, store_up, "orders", new_orders),
              since |-> UpdateRefreshTimestamp(since_refresh, "orders"),
              ret |-> "True", passes |-> 1,
              translations |-> OrderTranslations(cleared, store_up, new_orders[1])]

order_refresh(ok_title, ok_brief, ok_task) ==
    LET r == OrderRefresh(ok_title, ok_brief, ok_task)
    IN  /\ cache' = r.cache
        /\ index' = r.index
        /\ since_refresh' = r.since
        /\ call' = DispatchCall("order_refresh_cache_if_needed", 0,
                                WithinInterval(since_refresh, "orders"), FALSE, r.ret,
                                GetCachedData(api_cache, store_up, "hd2_major_orders").data,
                                0, r.passes, r.translations)
        /\ UNCHANGED api_cache

order_refresh_cache_if_needed ==
    \E ok_title, ok_brief, ok_task \in BOOLEAN : order_refresh(ok_title, ok_brief, ok_task)

(***************************************************************************)
(* APICacheManager (utils/cache_manager.py)                                *)
(***************************************************************************)
\* The names force_update and get_cached_data are called with: the caches
\* hd2_cache_service registers and one name that is never registered.
UnregisteredName == "unregistered"
RegistryNames == CacheNames \cup {UnregisteredName}

\* _update_cache returns True: the fetcher returned data and the set succeeded.
UpdateCacheOk(up, f) == f.ok /\ up

\* An update that stores the empty result of a failed fetch.
UpdateCacheStoreWritesFailure(ac, up, name, f) ==
    IF UpdateCacheOk(up, f) THEN [ac EXCEPT ![name] = CachedData(f.data)]
    ELSE IF up THEN [ac EXCEPT ![name] = CachedData(<<>>)] ELSE ac

\* The stored data after _update_cache(name) whose fetcher returned f.
UpdateCacheStore(ac, up, name, f) ==
    IF UpdateCacheOk(up, f) THEN [ac EXCEPT ![name] = CachedData(f.data)] ELSE ac

\* The payloads of the latest successful updates after _update_cache(name)
\* whose fetcher returned f: f's data when the update succeeded.
PayloadAfter(payloads, up, name, f) ==
    IF UpdateCacheOk(up, f) THEN [payloads EXCEPT ![name] = CachedData(f.data)] ELSE payloads

RegistryCall(op, name, ret, fetches, fetched, wrote) ==
    [op |-> op, name |-> name, ret |-> ret, fetches |-> fetches,
     fetched |-> fetched, wrote |-> wrote]

\* The value force_update returns after _update_cache returned ok.
ForceUpdateResult(ok) == "True"

\* APICacheManager.register_cache
register_cache(name) ==
    /\ cache_configs' = cache_configs \cup {name}
    /\ call' = RegistryCall("register_cache", name, "None", 0, FALSE, FALSE)
    /\ UNCHANGED <<api_cache, is_running, update_tasks, loop_sleeping, loop_live,
                   loop_fetching, stop_state, loop_failed, last_payload>>

\* APICacheManager.start: with the immediate-update setting on, every
\* registered cache is updated once; then one update loop per cache is created.
start ==
    /\ ~stop_state.active
    /\ IF is_running
       THEN /\ call' = RegistryCall("start", "", "None", 0, FALSE, FALSE)
            /\ UNCHANGED <<api_cache, registryVars>>
       ELSE \E immediate \in BOOLEAN :
            \E fo \in FetcherResults("hd2_major_orders") :
            \E fu \in FetcherResults("hd2_steam_updates") :
               LET f(n) == IF n = "hd2_major_orders" THEN fo ELSE fu
               IN  /\ is_running' = TRUE
                   /\ api_cache' =
                         IF immediate
                         THEN [n \in CacheNames |->
                                 IF n \in cache_configs
                                 THEN UpdateCacheStore(api_cache, store_up, n, f(n))[n]
                                 ELSE api_cache[n]]
                         ELSE api_cache
                   /\ last_payload' =
                         [n \in CacheNames |->
                            IF immediate /\ n \in cache_configs /\ UpdateCacheOk(store_up, f(n))
                            THEN CachedData(f(n).data) ELSE last_payload[n]]
                   /\ update_tasks' = cache_configs
                   /\ loop_live' = loop_live \cup cache_configs
                   /\ loop_sleeping' = loop_sleeping \ cache_configs
                   /\ call' = RegistryCall("start", "", "None",
                                           IF immediate THEN Cardinality(cache_configs) ELSE 0,
                                           FALSE, FALSE)
                   /\ UNCHANGED <<cache_configs, loop_fetching, stop_state, loop_failed>>

\* stop() that forgets the tasks without cancelling them.
CancelTaskIgnored(loops, name) == loops

\* task.cancel() and `await task` for the loop of name: the loop gets
\* CancelledError at the await it is suspended in (the fetch, the store write
\* or the sleep) and ends; it is in none of the sets of loops afterwards.
CancelTask(loops, name) == loops \ {name}

\* APICacheManager.stop up to its loop over the tasks: it returns at once when
\* the manager is not running.
stop_begin ==
    /\ ~stop_state.active
    /\ IF ~is_running
       THEN /\ call' = [RegistryCall("stop", "", "None", 0, FALSE, FALSE)
                         EXCEPT !.name = "not running"]
            /\ UNCHANGED registryVars
       ELSE /\ is_running' = FALSE
            /\ stop_state' = [active |-> TRUE, left |-> update_tasks, interrupted |-> {}]
            /\ call' = RegistryCall("stop_begin", "", "None", 0, FALSE, FALSE)
            /\ UNCHANGED <<cache_configs, update_tasks, loop_sleeping, loop_live, loop_fetching>>
    /\ UNCHANGED <<api_cache, loop_failed, last_payload>>

\* APICacheManager.stop: one task is cancelled and awaited.
stop_cancel(name) ==
    /\ stop_state.active
    /\ name \in stop_state.left
    /\ loop_live' = CancelTask(loop_live, name)
    /\ loop_fetching' = CancelTask(loop_fetching, name)
    /\ loop_sleeping' = CancelTask(loop_sleeping, name)
    /\ loop_failed' = CancelTask(loop_failed, name)
    /\ stop_state' = [stop_state EXCEPT !.left = @ \ {name},
                                        !.interrupted = @ \cup ({name} \cap loop_fetching)]
    /\ call' = RegistryCall("stop_cancel", name, "None", 0, FALSE, FALSE)
    /\ UNCHANGED <<api_cache, cache_configs, is_running, update_tasks, last_payload>>

\* APICacheManager.stop: every task was awaited; the tasks are forgotten and
\* stop returns.  The record keeps the names whose loop was cancelled while
\* it awaited its fetcher.
stop_return ==
    /\ stop_state.active
    /\ stop_state.left = {}
    /\ update_tasks' = {}
    /\ stop_state' = NoStop
    /\ call' = [op |-> "stop", name |-> "", ret |-> "None", fetches |-> 0,
                 fetched |-> FALSE, wrote |-> FALSE, interrupted |-> stop_state.interrupted]
    /\ UNCHANGED <<api_cache, cache_configs, is_running, loop_sleeping, loop_live, loop_fetching,
                   loop_failed, last_payload>>

\* APICacheManager.stop
stop == stop_begin \/ (\E name \in CacheNames : stop_cancel(name)) \/ stop_return

\* An update loop that ends when a round of it fails.
LoopAfterRoundEndsOnFailure(loops, name, ok) == IF ok THEN loops ELSE loops \ {name}

\* The loops after a round of the loop of name: the loop goes on to its sleep
\* whether _update_cache returned True or False (a failed or raising fetcher,
\* a failed store write).
LoopAfterRound(loops, name, ok) == loops

\* _update_loop(name) finds the manager running and calls _update_cache, which
\* awaits the fetcher.
update_loop_begin(name) ==
    /\ is_running
    /\ name \in loop_live
    /\ name \notin loop_sleeping
    /\ name \notin loop_fetching
    /\ loop_fetching' = loop_fetching \cup {name}
    /\ loop_failed' = loop_failed \ {name}
    /\ call' = [op |-> "update_loop_begin", name |-> name, ret |-> "None", fetches |-> 1,
                 fetched |-> FALSE, wrote |-> FALSE, after_failure |-> name \in loop_failed]
    /\ UNCHANGED <<api_cache, cache_configs, is_running, update_tasks, loop_sleeping,
                   loop_live, stop_state, last_payload>>

\* The rest of one round of _update_loop(name): the fetcher returns,
\* _update_cache stores the data, then the sleep begins.
update_loop(name) ==
    /\ name \in loop_fetching
    /\ \E f \in FetcherResults(name) :
          /\ api_cache' = UpdateCacheStore(api_cache, store_up, name, f)
          /\ call' = RegistryCall("update_loop", name,
                                  IF UpdateCacheOk(store_up, f) THEN "True" ELSE "False",
                                  1, f.ok, UpdateCacheOk(store_up, f))
          /\ last_payload' = PayloadAfter(last_payload, store_up, name, f)
          /\ loop_live' = LoopAfterRound(loop_live, name, UpdateCacheOk(store_up, f))
          /\ loop_sleeping' = LoopAfterRound(loop_sleeping \cup {name}, name, UpdateCacheOk(store_up, f))
          /\ loop_failed' = IF UpdateCacheOk(store_up, f) THEN loop_failed \ {name}
                            ELSE LoopAfterRound(loop_failed \cup {name}, name, FALSE)
    /\ loop_fetching' = loop_fetching \ {name}
    /\ UNCHANGED <<cache_configs, is_running, update_tasks, stop_state>>

\* The sleep of _update_loop(name) ends.
loop_wake(name) ==
    /\ name \in loop_sleeping
    /\ loop_sleeping' = loop_sleeping \ {name}
    /\ call' = RegistryCall("loop_wake", name, "None", 0, FALSE, FALSE)
    /\ UNCHANGED <<api_cache, cache_configs, is_running, update_tasks, loop_live,
                   loop_fetching, stop_state, loop_failed, last_payload>>

\* _update_loop(name) finds the manager not running and returns.
loop_exit(name) ==
    /\ ~is_running
    /\ name \in loop_live
    /\ name \notin loop_sleeping
    /\ name \notin loop_fetching
    /\ loop_live' = loop_live \ {name}
    /\ loop_failed' = loop_failed \ {name}
    /\ call' = RegistryCall("loop_exit", name, "None", 0, FALSE, FALSE)
    /\ UNCHANGED <<api_cache, cache_configs, is_running, update_tasks, loop_sleeping,
                   loop_fetching, stop_state, last_payload>>

\* force_update that leaves a cache alone while its loop sleeps.
force_update_if_due(name) ==
    /\ IF name \notin cache_configs \/ name \in loop_sleeping
       THEN /\ call' = RegistryCall("force_update", name, "False", 0, FALSE, FALSE)
            /\ UNCHANGED <<api_cache, last_payload>>
       ELSE \E f \in FetcherResults(name) :
              /\ api_cache' = UpdateCacheStore(api_cache, store_up, name, f)
              /\ last_payload' = PayloadAfter(last_payload, store_up, name, f)
              /\ call' = RegistryCall("force_update", name, "True",
                                      1, f.ok, UpdateCacheOk(store_up, f))
    /\ UNCHANGED <<cache_configs, is_running, update_tasks, loop_sleeping, loop_live,
                   loop_fetching, stop_state, loop_failed>>

\* APICacheManager.force_update(name)
force_update(name) ==
    /\ IF name \notin cache_configs
       THEN /\ call' = RegistryCall("force_update", name, "False", 0, FALSE, FALSE)
            /\ UNCHANGED <<api_cache, last_payload>>
       ELSE \E f \in FetcherResults(name) :
              /\ api_cache' = UpdateCacheStore(api_cache, store_up, name, f)
              /\ last_payload' = PayloadAfter(last_payload, store_up, name, f)
              /\ call' = RegistryCall("force_update", name,
                                      ForceUpdateResult(UpdateCacheOk(store_up, f)),
                                      1, f.ok, UpdateCacheOk(store_up, f))
    /\ UNCHANGED <<cache_configs, is_running, update_tasks, loop_sleeping, loop_live,
                   loop_fetching, stop_state, loop_failed>>

\* The key-value store stops or resumes answering.
\* APICacheManager.get_cached_data(name) as the registry's callers use it:
\* None for a name without a config, for a key without a value and for a store
\* that fails; otherwise the "data" field of the stored value.
get_cached_data(name) ==
    LET found == IF name \in cache_configs
                 THEN GetCachedData(api_cache, store_up, name) ELSE NotCached
    IN  /\ call' = [op |-> "get_cached_data", name |-> name,
                     ret |-> IF found.stored THEN "data" ELSE "None",
                     fetches |-> 0, fetched |-> FALSE, wrote |-> FALSE, data |-> found.data]
        /\ UNCHANGED <<api_cache, registryVars>>

RegistryStoreToggle ==
    /\ store_up' = ~store_up
    /\ call' = RegistryCall("store", "", "None", 0, FALSE, FALSE)
    /\ UNCHANGED <<api_cache, registryVars>>

(***************************************************************************)
(* Claims about the retry queue                                            *)
(***************************************************************************)
TaskAt(k) == retry_tasks[FindTask(retry_tasks, k[1], k[2])]

\* C1: after any interleaving of add_retry_task calls and queue ticks, the
\* retry queue holds at most one RetryTask per (content_type, item_id) pair.
C1_OneTaskPerPair ==
    \A i, j \in 1..Len(retry_tasks) :
        i # j => Key(retry_tasks[i]) # Key(retry_tasks[j])

\* An add for a queued pair arrived while a tick was between two attempts
\* and another pair was queued as well.
C1_Witness ==
    /\ call.op = "add_retry_task" /\ call.existed
    /\ q_pc \in {"processing", "awaiting", "finishing"}
    /\ Len(retry_tasks) = 2

\* C2: add_retry_task for a queued pair keeps the queue length, replaces the
\* task's original_text and metadata by the new values and adds exactly 1 to
\* its retry_count; for a pair that is not queued it appends one task with
\* retry_count 0.  Every other task is left as it was.
C2_AddPost(ct, id, text, meta) ==
    LET i == FindTask(retry_tasks, ct, id)
    IN  IF i # 0
        THEN /\ Len(retry_tasks') = Len(retry_tasks)
             /\ retry_tasks'[i].original_text = text
             /\ retry_tasks'[i].metadata = meta
             /\ retry_tasks'[i].retry_count = retry_tasks[i].retry_count + 1
             /\ Key(retry_tasks'[i]) = <<ct, id>>
             /\ \A j \in 1..Len(retry_tasks) : j # i => retry_tasks'[j] = retry_tasks[j]
        ELSE /\ Len(retry_tasks') = Len(retry_tasks) + 1
             /\ retry_tasks'[Len(retry_tasks')].retry_count = 0
             /\ retry_tasks'[Len(retry_tasks')].original_text = text
             /\ retry_tasks'[Len(retry_tasks')].metadata = meta
             /\ Key(retry_tasks'[Len(retry_tasks')]) = <<ct, id>>
             /\ \A j \in 1..Len(retry_tasks) : retry_tasks'[j] = retry_tasks[j]

C2_AddUpdatesInPlace ==
    [][\A ct \in QueueTypes, id \in Ids, text \in QueueTexts, meta \in Metas :
          add_retry_task(ct, id, text, meta) => C2_AddPost(ct, id, text, meta)]_vars

\* The last call was an add for a queued pair: its task has a retry_count that
\* no failed attempt accounts for.
C2_Witness ==
    /\ call.op = "add_retry_task" /\ call.existed
    /\ \E i \in 1..Len(retry_tasks) :
          retry_tasks[i].retry_count >= 1 /\ retry_tasks[i].fails = 0

\* C3: a task whose attempts failed max_retry_count times is attempted no more
\* (no task ever has more failed attempts, and the attempt in progress is for a
\* task with fewer), the tick that finds it due removes it, and attempts are
\* made only for tasks that are in the queue.
C3_NoAttemptBeyondMax ==
    /\ \A i \in 1..Len(retry_tasks) : retry_tasks[i].fails <= max_retry_count
    /\ \A n \in 1..Len(tasks_to_process) :
          /\ FindTask(retry_tasks, tasks_to_process[n][1], tasks_to_process[n][2]) # 0
          /\ q_pc = "awaiting" /\ n = 1 => TaskAt(tasks_to_process[n]).fails < max_retry_count

C3_TickRemoves ==
    (call'.op = "tick" /\ q_pc = "idle" /\ rotation_running /\ retry_tasks # <<>>) =>
        \A i \in 1..Len(retry_tasks) :
            (IsDue(retry_tasks[i]) /\ retry_tasks[i].fails >= max_retry_count) =>
                /\ FindTask(retry_tasks', retry_tasks[i].content_type, retry_tasks[i].item_id) = 0
                /\ \A n \in 1..Len(tasks_to_process') : tasks_to_process'[n] # Key(retry_tasks[i])

C3_AbandonedAfterMaxFailures == []C3_NoAttemptBeyondMax /\ [][C3_TickRemoves]_vars

\* A tick has just removed a task that had failed max_retry_count attempts.
C3_Witness == call.op = "tick" /\ max_retry_count \in call.abandoned

\* C14: in every interleaving of add_retry_task with the ticks and their
\* translation attempts, the retry queue's tick is running whenever the queue
\* is non-empty: an add into an empty queue leaves it running, and a step that
\* stops it starts from an empty queue and leaves the queue empty.
C14_RunningWhileNonEmpty == retry_tasks # <<>> => rotation_running

C14_StartedOnFirstAdd ==
    (retry_tasks = <<>> /\ retry_tasks' # <<>>) => rotation_running'

C14_StoppedOnlyWhileEmpty ==
    (rotation_running /\ ~rotation_running') => (retry_tasks = <<>> /\ retry_tasks' = <<>>)

C17_NoUntranslatedEntry == \A e \in cache : e.translated_text # e.original_text

C17_TickLeavesCache ==
    call'.op = "tick" =>
        /\ cache' = cache
        /\ \A t \in RemovedTasks(retry_tasks) :
              FindTask(retry_tasks', t.content_type, t.item_id) = 0

InitQueue == InitTr /\ InitQueueVars /\ InitCacheVars /\ InitRegistryVars /\ InitCycleVars /\ InitHttpVars /\ call = NoCall

NextQueue ==
    \/ \E ct \in QueueTypes, id \in Ids, text \in QueueTexts, meta \in Metas :
          add_retry_task(ct, id, text, meta) /\ UNCHANGED <<registryVars, cycleVars, httpVars, trVars, cacheVars>>
    \/ process_retry_queue /\ UNCHANGED <<registryVars, cycleVars, httpVars, trVars, index, since_refresh, store_up, api_cache>>
    \/ AttemptStart /\ UNCHANGED <<registryVars, cycleVars, httpVars, trVars, cacheVars>>
    \/ \E r \in TranslateTextResults(in_flight) : AttemptFinish(r) /\ UNCHANGED <<registryVars, cycleVars, httpVars, trVars, index, since_refresh, store_up, api_cache>>
    \/ FinishPass /\ UNCHANGED <<registryVars, cycleVars, httpVars, trVars, cacheVars>>
    \/ Advance /\ UNCHANGED <<registryVars, cycleVars, httpVars, trVars, cacheVars>>

SpecQueue == InitQueue /\ [][NextQueue]_vars


\* The plugin formats what its read returned (plugins/plugin_msg.py).
LastRead == IF call.op = "get_dispatches" /\ call.ret = "list" /\ call.items # <<>> THEN {call.items} ELSE {}

(***************************************************************************)
(* Claims about the dispatch service                                       *)
(***************************************************************************)
IsRefresh(c) == c.op = "refresh_cache_if_needed"
IsGet(c) == c.op = "get_dispatches"
IsFormat(c) == c.op = "format_dispatch_messages"

\* C4: a refresh_cache_if_needed call made within the minimum refresh
\* interval of the previous refresh makes no upstream fetch.
C4_NoFetchWithinInterval ==
    (IsRefresh(call) /\ call.within) => call.fetches = 0

\* C5: a refresh_cache_if_needed call made within the minimum refresh
\* interval returns false and leaves the index, the cache entries, the retry
\* queue and the last-refresh time as they were.
C5_ThrottledRefreshChangesNothing ==
    [][(IsRefresh(call') /\ WithinInterval(since_refresh, "dispatches"))
          => /\ call'.ret = "False"
             /\ call'.passes = 0
             /\ UNCHANGED <<index, cache, retry_tasks, since_refresh>>]_vars

C5_Witness ==
    /\ IsRefresh(call) /\ call.within /\ call.ret = "False"
    /\ index["dispatches"] # <<>>
    /\ cache # {}
    /\ retry_tasks # <<>>

\* C6 as stated: with no stored index get_dispatches(limit) makes exactly one
\* fetch and one translate-and-store pass and returns at most limit items; with
\* an index stored it returns the index items with no fetch and no translation.
C6_ColdReadOnePassThenIndex ==
    [][IsGet(call') =>
          IF index["dispatches"] = <<>>
          THEN /\ call'.fetches = 1
               /\ call'.passes = 1
               /\ Len(call'.items) <= call'.limit
          ELSE /\ call'.fetches = 0
               /\ call'.translations = 0
               /\ call'.items = Prefix(index["dispatches"], call'.limit)]_vars

\* C6 amended: a get_dispatches(limit) that reads no index makes exactly one
\* fetch; a non-empty payload gets one translate-and-store pass and at most
\* limit of its items are returned, any other fetch result gets no pass and
\* None is returned.  With an index stored and the store readable the call
\* returns the first limit index items with no fetch and no translation.
C6_ColdReadOnePassIfFetched ==
    [][IsGet(call') =>
          IF GetContentList(index, store_up, "dispatches") = <<>>
          THEN /\ call'.fetches = 1
               /\ \/ /\ call'.ret = "list" /\ call'.passes = 1
                     /\ call'.items # <<>> /\ Len(call'.items) <= call'.limit
                     /\ (store_up => index'["dispatches"] # <<>>)
                  \/ /\ call'.ret = "None" /\ call'.passes = 0
                     /\ UNCHANGED <<index, cache, retry_tasks>>
          ELSE /\ call'.fetches = 0
               /\ call'.passes = 0
               /\ call'.translations = 0
               /\ call'.items = Prefix(index["dispatches"], call'.limit)
               /\ UNCHANGED <<index, cache, retry_tasks>>]_vars

\* A read served from the index that an earlier cold read stored, cut to limit.
C6_Witness ==
    /\ IsGet(call) /\ ~call.cold /\ call.fetches = 0
    /\ Len(index["dispatches"]) > call.limit
    /\ call.items = Prefix(index["dispatches"], call.limit)
    /\ since_refresh["dispatches"] < 0

\* C7: formatting never calls the translation client and never writes the
\* cache; an item with a cached translation is rendered with it and an item
\* without one is rendered with its original text.
C7_FormatNeverTranslates ==
    [][IsFormat(call') =>
          /\ call'.translations = 0
          /\ UNCHANGED cache
          /\ \A dispatches \in LastRead : \A i \in 1..Len(dispatches) :
                LET cached_translation ==
                        GetTranslatedContent(cache, store_up, "dispatches", dispatches[i].id)
                IN  call'.items[i].message =
                        CleanGameText(IF cached_translation # <<>>
                                      THEN cached_translation[1].translated_text
                                      ELSE dispatches[i].message)]_vars

InitDispatch == InitTr /\ InitQueueVars /\ InitCacheVars /\ InitRegistryVars /\ InitCycleVars /\ InitHttpVars /\ call = NoCall

NextDispatch ==
    \/ /\ refresh_cache_if_needed
       /\ UNCHANGED <<registryVars, cycleVars, httpVars, trVars, store_up, api_cache, q_pc, tasks_to_process, successful_tasks, in_flight>>
    \/ \E limit \in 1..MaxLimit :
          /\ get_dispatches(limit)
          /\ UNCHANGED <<registryVars, cycleVars, httpVars, trVars, store_up, api_cache, q_pc, tasks_to_process, successful_tasks, in_flight>>
    \/ \E dispatches \in LastRead :
          /\ format_dispatch_messages(dispatches)
          /\ UNCHANGED <<registryVars, cycleVars, httpVars, trVars, store_up, api_cache, q_pc, tasks_to_process, successful_tasks, in_flight>>
    \/ /\ AdvanceRefresh
       /\ UNCHANGED <<registryVars, cycleVars, httpVars, trVars, store_up, api_cache, q_pc, tasks_to_process, successful_tasks, in_flight>>
    \/ /\ StoreToggle
       /\ UNCHANGED <<registryVars, cycleVars, httpVars, trVars, api_cache, q_pc, tasks_to_process, successful_tasks, in_flight>>
    \/ /\ retry_pass_succeeds
       /\ UNCHANGED <<registryVars, cycleVars, httpVars, trVars, store_up, api_cache, q_pc, tasks_to_process, successful_tasks, in_flight>>

SpecDispatch == InitDispatch /\ [][NextDispatch]_vars

(***************************************************************************)
(* Claims about the read paths                                             *)
(***************************************************************************)
ReadOps == {"get_dispatches", "get_current_orders", "get_latest_steam_update"}

ReadType(op) ==
    IF op = "get_dispatches" THEN "dispatches"
    ELSE IF op = "get_current_orders" THEN "orders" ELSE "steam"

ReadCache(op) ==
    IF op = "get_current_orders" THEN "hd2_major_orders" ELSE "hd2_steam_updates"

\* The store holds nothing a read of content type ct could use: it does not
\* answer, or one of the keys of ct (the index, the entries, the cached data)
\* is empty.
StoreEmptyFor(op) ==
    \/ ~store_up
    \/ index[ReadType(op)] = <<>>
    \/ { e \in cache : e.content_type = ReadType(op) } = {}
    \/ op # "get_dispatches" /\ api_cache[ReadCache(op)].data = <<>>

\* C8: a read (get_dispatches, get_current_orders, get_latest_steam_update)
\* makes an upstream request only when it found the store empty for its
\* content type.
C8_ReadsFetchOnlyWhenStoreEmpty ==
    [][(call'.op \in ReadOps /\ call'.fetches > 0) => StoreEmptyFor(call'.op)]_vars

InitReads == InitTr /\ InitQueueVars /\ InitCacheVars /\ InitRegistryVars /\ InitCycleVars /\ InitHttpVars /\ call = NoCall

NextReads ==
    \/ \E name \in CacheNames :
          update_cache(name) /\ UNCHANGED <<registryVars, cycleVars, httpVars, trVars, queueVars, store_up>>
    \/ steam_refresh_cache_if_needed /\ UNCHANGED <<registryVars, cycleVars, httpVars, trVars, queueVars, store_up>>
    \/ get_latest_steam_update /\ UNCHANGED <<registryVars, cycleVars, httpVars, trVars, queueVars, store_up>>
    \/ get_current_orders /\ UNCHANGED <<registryVars, cycleVars, httpVars, trVars, queueVars, store_up>>
    \/ AdvanceRefresh /\ UNCHANGED <<registryVars, cycleVars, httpVars, trVars, api_cache, store_up, q_pc, tasks_to_process,
                                     successful_tasks, in_flight>>
    \/ StoreToggle /\ UNCHANGED <<registryVars, cycleVars, httpVars, trVars, api_cache, q_pc, tasks_to_process,
                                  successful_tasks, in_flight>>

SpecReads == InitReads /\ [][NextReads]_vars

\* The order service: the cache manager's loop stores the orders, the rotation
\* calls refresh_cache_if_needed.
InitOrders == InitTr /\ InitQueueVars /\ InitCacheVars /\ InitRegistryVars /\ InitCycleVars /\ InitHttpVars /\ call = NoCall

NextOrders ==
    \/ update_cache("hd2_major_orders") /\ UNCHANGED <<registryVars, cycleVars, httpVars, trVars, queueVars, store_up>>
    \/ order_refresh_cache_if_needed /\ UNCHANGED <<registryVars, cycleVars, httpVars, trVars, queueVars, store_up>>
    \/ AdvanceRefresh /\ UNCHANGED <<registryVars, cycleVars, httpVars, trVars, api_cache, store_up, q_pc, tasks_to_process,
                                     successful_tasks, in_flight>>
    \/ StoreToggle /\ UNCHANGED <<registryVars, cycleVars, httpVars, trVars, api_cache, q_pc, tasks_to_process,
                                  successful_tasks, in_flight>>

SpecOrders == InitOrders /\ [][NextOrders]_vars

(***************************************************************************)
(* Claims about failed and partial translations                            *)
(***************************************************************************)
\* The answers of the API that are empty or equal to the trimmed source.
EchoAnswers(text) ==
    { a \in ApiTexts(Strip(text)) : Strip(a) = <<>> \/ Strip(a) = Strip(text) }

DispatchEntries(c, id) == { e \in c : e.content_type = "dispatches" /\ e.item_id = id }

\* The pass of this step queued or re-queued a retry task for dispatch id.
DispatchFailedInStep(id) ==
    LET i == FindTask(retry_tasks', "dispatches", id)
        j == FindTask(retry_tasks, "dispatches", id)
    IN  /\ i # 0
        /\ j = 0 \/ retry_tasks'[i] # retry_tasks[j]

\* C11: for an answer that is empty or equal to the trimmed source text
\* translate_text returns the original text; an item whose translate_text
\* result is the original text gets a retry task and no cache entry is stored
\* for it, so no entry of the cache presents an empty or untranslated text as
\* the translation.
C11_EchoReturnsOriginal ==
    \A text \in TranslateInputs \cup DispatchMessages :
        /\ PassesThrough(text) => TranslateTextResults(text) = {text}
        /\ ~PassesThrough(text) =>
              /\ EchoAnswers(text) # {}
              /\ \A a \in EchoAnswers(text) : AnswerResult(text, a) = text
        /\ TranslateOutcome(text, FALSE) = text

C11_NoEntryStoredAsTranslated ==
    \A e \in cache : e.content_type = "dispatches" =>
        e.translated_text # <<>> /\ e.translated_text # e.original_text

C11_FailedItemNotStored ==
    \A id \in 1..DispatchMaxId :
        DispatchFailedInStep(id) => DispatchEntries(cache', id) = DispatchEntries(cache, id)

C11_EchoedTranslationIsFailure ==
    /\ [](C11_EchoReturnsOriginal /\ C11_NoEntryStoredAsTranslated)
    /\ [][C11_FailedItemNotStored]_vars

\* A pass translated one item and failed on the other: the first is cached,
\* the second is queued and has no cache entry.
C11_Witness ==
    /\ call.op \in {"refresh_cache_if_needed", "get_dispatches"}
    /\ call.passes = 1 /\ call.translations = 2
    /\ store_up
    /\ \E id \in 1..DispatchMaxId :
          /\ FindTask(retry_tasks, "dispatches", id) # 0
          /\ DispatchEntries(cache, id) = {}
    /\ \E id \in 1..DispatchMaxId : DispatchEntries(cache, id) # {}

(***************************************************************************)
(* Claims about the cache registry                                         *)
(***************************************************************************)
IsForceUpdate(c) == c.op = "force_update"

\* C12: force_update of an unregistered name returns False and calls no
\* fetcher; of a registered name it calls the fetcher exactly once, whether
\* the config's update loop is due, asleep or not started.
C12_ForceUpdateFetchesOnce ==
    [][IsForceUpdate(call') =>
          IF call'.name \in cache_configs
          THEN call'.fetches = 1
          ELSE /\ call'.fetches = 0 /\ call'.ret = "False"
               /\ UNCHANGED <<api_cache, registryVars>>]_vars

\* force_update of a registered cache whose loop is asleep between two
\* scheduled updates.
C12_Witness ==
    /\ IsForceUpdate(call) /\ call.fetches = 1
    /\ is_running /\ call.name \in loop_sleeping

\* C13: force_update returns True only if the fetcher returned data and the
\* payload was written to the store.
C13_ForceUpdateTrueOnlyOnSuccess ==
    (IsForceUpdate(call) /\ call.ret = "True") => (call.fetched /\ call.wrote)

InitRegistry == InitTr /\ InitQueueVars /\ InitCacheVars /\ InitRegistryVars /\ InitCycleVars /\ InitHttpVars /\ call = NoCall

NextRegistry ==
    \/ \E name \in CacheNames :
          register_cache(name) /\ UNCHANGED <<cycleVars, httpVars, trVars, queueVars, cache, index, since_refresh, store_up>>
    \/ start /\ UNCHANGED <<cycleVars, httpVars, trVars, queueVars, cache, index, since_refresh, store_up>>
    \/ stop /\ UNCHANGED <<cycleVars, httpVars, trVars, queueVars, cache, index, since_refresh, store_up>>
    \/ \E name \in CacheNames :
          update_loop_begin(name) /\ UNCHANGED <<cycleVars, httpVars, trVars, queueVars, cache, index, since_refresh, store_up>>
    \/ \E name \in CacheNames :
          update_loop(name) /\ UNCHANGED <<cycleVars, httpVars, trVars, queueVars, cache, index, since_refresh, store_up>>
    \/ \E name \in CacheNames :
          loop_exit(name) /\ UNCHANGED <<cycleVars, httpVars, trVars, queueVars, cache, index, since_refresh, store_up>>
    \/ \E name \in CacheNames :
          loop_wake(name) /\ UNCHANGED <<cycleVars, httpVars, trVars, queueVars, cache, index, since_refresh, store_up>>
    \/ \E name \in RegistryNames :
          force_update(name) /\ UNCHANGED <<cycleVars, httpVars, trVars, queueVars, cache, index, since_refresh, store_up>>
    \/ \E name \in RegistryNames :
          get_cached_data(name) /\ UNCHANGED <<cycleVars, httpVars, trVars, queueVars, cache, index, since_refresh, store_up>>
    \/ RegistryStoreToggle /\ UNCHANGED <<cycleVars, httpVars, trVars, queueVars, cache, index, since_refresh>>

SpecRegistry == InitRegistry /\ [][NextRegistry]_vars

\* The steps of the update loop of name, as NextRegistry takes them.
LoopStep(name) ==
    /\ update_loop_begin(name) \/ update_loop(name) \/ loop_wake(name)
    /\ UNCHANGED <<cycleVars, httpVars, trVars, queueVars, cache, index, since_refresh, store_up>>

\* The registry under a fair event loop: a loop that can take its next step
\* (its fetcher returns, its sleep ends, it is scheduled again) takes it.
SpecRegistryFair == SpecRegistry /\ \A name \in CacheNames : WF_vars(LoopStep(name))

(***************************************************************************)
(* Claims about the translate-and-cache procedures                         *)
(***************************************************************************)
\* translate_text gave nothing usable for a field: the field is empty, or the
\* answer is empty or the field itself.
FieldFailed(text, ok) ==
    text = <<>> \/ TranslateOutcome(text, ok) = <<>> \/ TranslateOutcome(text, ok) = text

\* The refresh with fetch result f translated its update and every field failed.
SteamAllFailed(f, ok_title, ok_content) ==
    /\ SteamRefresh(f, ok_title, ok_content).translations > 0
    /\ FieldFailed(f.data[1].title, ok_title)
    /\ FieldFailed(f.data[1].content, ok_content)

\* C15: when every translatable field of a fresh item fails to translate, a
\* retry task for the item is queued when the procedure returns; here for the
\* content type steam.
C15_AllFailedItemIsQueued ==
    [][\A f \in FetcherResults("hd2_steam_updates"), ok_title, ok_content \in BOOLEAN :
          (steam_refresh(f, ok_title, ok_content) /\ SteamAllFailed(f, ok_title, ok_content))
              => FindTask(retry_tasks', "steam", f.data[1].id) # 0]_vars


\* The text stored for a field: its translation, or the field itself when the
\* translation failed.
Filled(text, ok) == IF FieldFailed(text, ok) THEN text ELSE TranslateOutcome(text, ok)

\* The refresh translated its order and at least one field succeeded.
OrderPartlyTranslated(order, ok_title, ok_brief, ok_task) ==
    /\ OrderRefresh(ok_title, ok_brief, ok_task).translations > 0
    /\ ~(/\ FieldFailed(order.title, ok_title)
          /\ FieldFailed(order.brief, ok_brief)
          /\ FieldFailed(order.task, ok_task))

C16_OrderStored(order, ok_title, ok_brief, ok_task) ==
    LET stored == { e \in cache' : e.content_type = "orders" /\ e.item_id = order.id }
    IN  /\ Cardinality(stored) = 1
        /\ \A e \in stored :
              /\ e.original_text = JoinThree(order.title, order.brief, order.task)
              /\ e.translated_text = JoinThree(Filled(order.title, ok_title),
                                               Filled(order.brief, ok_brief),
                                               Filled(order.task, ok_task))
        /\ retry_tasks' = retry_tasks

C16_SteamStored(update, ok_title, ok_content) ==
    LET stored == { e \in cache' : e.content_type = "steam" /\ e.item_id = update.id }
    IN  /\ Cardinality(stored) = 1
        /\ \A e \in stored :
              /\ e.translated_text = JoinLines(Filled(update.title, ok_title),
                                               Filled(update.content, ok_content))
              /\ e.metadata.translated_title = Filled(update.title, ok_title)
              /\ e.metadata.translated_content = Filled(update.content, ok_content)
        /\ retry_tasks' = retry_tasks

C16_SteamPartialSuccessIsCached ==
    [][\A f \in FetcherResults("hd2_steam_updates"), ok_title, ok_content \in BOOLEAN :
          (/\ steam_refresh(f, ok_title, ok_content)
           /\ store_up
           /\ SteamRefresh(f, ok_title, ok_content).translations > 0
           /\ ~SteamAllFailed(f, ok_title, ok_content))
          => C16_SteamStored(f.data[1], ok_title, ok_content)]_vars

(***************************************************************************)
(* Claims about eviction and change detection                              *)
(***************************************************************************)
\* The dispatch entries of the cache whose id is not in the payload.
AbsentEntries(c, payload) ==
    { e \in c : e.content_type = "dispatches" /\ e.item_id \notin IdsOf(payload) }

\* The refresh runs outside the minimum interval, the store answers and the
\* fetch returned a list.
RefreshOutsideInterval(f) ==
    /\ ~WithinInterval(since_refresh, "dispatches")
    /\ store_up
    /\ f.ok
    /\ refresh_cache(f)

SteamTextChanged(f) ==
    /\ f.ok /\ f.data # <<>>
    /\ f.data[1].id \in IdsOf(index["steam"])
    /\ \E e \in cache :
          /\ e.content_type = "steam" /\ e.item_id = f.data[1].id
          /\ IsContentOutdated(e.original_text, JoinLines(f.data[1].title, f.data[1].content))

\* C19: when the fresh payload holds an item with the id of an indexed item
\* and a changed source text, refresh_cache_if_needed called outside the
\* minimum interval runs a refresh cycle, translates the item again and
\* returns true; here for the content type steam.
C19_ChangedTextIsRefreshed ==
    [][\A f \in FetcherResults("hd2_steam_updates"), ok_title, ok_content \in BOOLEAN :
          (/\ ~WithinInterval(since_refresh, "steam")
           /\ store_up
           /\ SteamTextChanged(f)
           /\ steam_refresh(f, ok_title, ok_content))
          => (call'.ret = "True" /\ call'.translations > 0)]_vars

(***************************************************************************)
(* Claims about error handling                                             *)
(***************************************************************************)
\* The dispatch service with calls whose body raises.
InitFailures == InitTr /\ InitQueueVars /\ InitCacheVars /\ InitRegistryVars /\ InitCycleVars /\ InitHttpVars /\ call = NoCall

NextFailures ==
    \/ NextDispatch
    \/ \E op \in GuardedOps :
          /\ handler_raises(op)
          /\ UNCHANGED <<registryVars, cycleVars, httpVars, trVars, store_up, api_cache, q_pc, tasks_to_process,
                         successful_tasks, in_flight>>

SpecFailures == InitFailures /\ [][NextFailures]_vars

Raised(c) == "raised" \in DOMAIN c

\* C20: get_dispatches, refresh_cache_if_needed and the format operations
\* never raise to their caller: get_dispatches returns None or a list,
\* refresh_cache_if_needed returns a boolean, a format operation returns a
\* non-empty list, and a call whose body raised returns None, False or the
\* list holding the error placeholder.
C20_NeverRaises ==
    /\ call.op = "get_dispatches" => call.ret \in {"None", "list"}
    /\ call.op = "refresh_cache_if_needed" => call.ret \in {"True", "False"}
    /\ call.op \in {"format_dispatch_messages", "format_order_messages"} =>
          call.ret = "list" /\ call.items # <<>>
    /\ Raised(call) =>
          /\ call.op = "get_dispatches" => call.ret = "None"
          /\ call.op = "refresh_cache_if_needed" => call.ret = "False"
          /\ call.op \in {"format_dispatch_messages", "format_order_messages"} =>
                call.items = <<FormatFailedMessage>>

\* A format call whose body raised has returned the error placeholder.
C20_Witness ==
    /\ Raised(call) /\ call.op = "format_dispatch_messages"
    /\ call.items = <<FormatFailedMessage>>

-----------------------------------------------------------------------------
\* C21: what holds once stop() has returned.

\* stop() has returned and start() was not called since.
Stopped == ~is_running /\ ~stop_state.active

\* The steps one round of an update loop takes.
IsLoopStep(c) == c.op \in {"update_loop_begin", "update_loop"}

\* Once stop() has returned, no task is kept and no update loop is alive.
C21_NoLoopAfterStop ==
    Stopped => (update_tasks = {} /\ loop_live = {} /\ loop_fetching = {})

\* Once stop() has returned, no step is a loop calling its fetcher or writing
\* the store.
C21_NoLoopStepAfterStop == [][Stopped => ~IsLoopStep(call')]_vars

-----------------------------------------------------------------------------
\* C22: the update loops keep calling their fetchers.

\* The loop of name has just called its fetcher.
FetcherCalled(name) == call.op = "update_loop_begin" /\ call.name = name

\* The registry is running with a task for name.
LoopExpected(name) == is_running /\ name \in update_tasks

-----------------------------------------------------------------------------
\* C23: get_cached_data.

IsGetCachedData(c) == c.op = "get_cached_data"

\* name has a config and its latest successful update stored payload d
\* (nothing has written the key since).
UpdatedWith(name, d) == name \in cache_configs /\ last_payload[name] = CachedData(d)

\* get_cached_data(name) returned the data d.
ReturnedData(c, d) == c.ret = "data" /\ c.data = d

\* get_cached_data writes nothing and calls no fetcher.
C23_ReadOnly ==
    [][IsGetCachedData(call') =>
          /\ UNCHANGED <<api_cache, registryVars, store_up>>
          /\ call'.fetches = 0 /\ ~call'.wrote]_vars

\* get_cached_data returns None for a name without a config and for a key
\* nothing was stored under.
C23_NoneWithoutData ==
    [][(/\ IsGetCachedData(call')
        /\ \/ call'.name \notin cache_configs
           \/ ~last_payload[call'.name].stored) => call'.ret = "None"]_vars

\* C23 as stated: after a successful update of config name with payload d
\* and no later write to its key, get_cached_data(name) returns exactly d.
C23_ReturnsLastPayload ==
    [][\A name \in CacheNames : \A f \in FetcherResults(name) :
          (IsGetCachedData(call') /\ call'.name = name /\ UpdatedWith(name, f.data))
              => ReturnedData(call', f.data)]_vars

\* The same while the store answers; a store that fails gives None.
C23_ReturnsLastPayloadWhenStoreAnswers ==
    [][\A name \in CacheNames : \A f \in FetcherResults(name) :
          (IsGetCachedData(call') /\ call'.name = name /\ UpdatedWith(name, f.data))
              => IF store_up THEN ReturnedData(call', f.data) ELSE call'.ret = "None"]_vars

\* C23, amended: get_cached_data(name) never writes the store and never calls
\* a fetcher; it returns None when the name is unregistered or nothing is
\* stored under the key; after a successful update of config name with
\* payload d and no later write to its key it returns exactly d while the
\* store answers, and None while the store fails.
C23_GetCachedData ==
    C23_ReadOnly /\ C23_NoneWithoutData /\ C23_ReturnsLastPayloadWhenStoreAnswers

\* get_cached_data returned the non-empty payload of the latest update.
C23_Witness ==
    /\ IsGetCachedData(call) /\ call.name \in cache_configs
    /\ call.ret = "data" /\ call.data # <<>>
    /\ last_payload[call.name] = CachedData(call.data)

(***************************************************************************)
(* TextMatcher applied to bounded inputs                                   *)
(***************************************************************************)
MatcherMaxId == 3
MatcherMaxLen == 2

\* Texts: empty, blank, equal up to case or to a removed character, different.
MatcherTexts ==
    { <<>>, <<" ">>, <<"a">>, T_abc, T_abd, <<"A", "b", "c">>, <<"a", "b", "c", "#">> }
MatcherItemTexts == { <<>>, T_abc, T_abd, <<"A", "b", "c">> }

MatcherItems == [id : 1..MatcherMaxId, message : MatcherItemTexts]

\* Item lists as the services pass them: no two items of a list share an id.
MatcherLists ==
    { l \in UNION { [1..n -> MatcherItems] : n \in 0..MatcherMaxLen } :
        \A i, j \in 1..Len(l) : i # j => l[i].id # l[j].id }

\* TextMatcher.is_content_outdated(cached_text, new_text)
is_content_outdated(cached_text, new_text) ==
    /\ call = NoCall
    /\ call' = [op |-> "is_content_outdated", cached_text |-> cached_text,
                new_text |-> new_text,
                similarity |-> CalculateSimilarity(cached_text, new_text),
                ret |-> IsContentOutdated(cached_text, new_text)]
    /\ UNCHANGED <<queueVars, trVars, cacheVars, registryVars, cycleVars, httpVars>>

\* TextMatcher.find_content_changes(cached_items, new_items, 'message')
find_content_changes(cached_items, new_items) ==
    /\ call = NoCall
    /\ call' = [op |-> "find_content_changes", cached_items |-> cached_items,
                new_items |-> new_items,
                ret |-> FindContentChanges(cached_items, new_items, "message")]
    /\ UNCHANGED <<queueVars, trVars, cacheVars, registryVars, cycleVars, httpVars>>

InitMatcher == InitTr /\ InitQueueVars /\ InitCacheVars /\ InitRegistryVars /\ InitCycleVars /\ InitHttpVars /\ call = NoCall

NextMatcher ==
    \/ \E cached_text, new_text \in MatcherTexts : is_content_outdated(cached_text, new_text)
    \/ \E cached_items, new_items \in MatcherLists : find_content_changes(cached_items, new_items)

\* One call is made on each input: the functions keep no state between calls.
SpecMatcher == InitMatcher /\ [][NextMatcher]_vars

-----------------------------------------------------------------------------
\* C24: find_content_changes.

IsFindChanges(c) == c.op = "find_content_changes"

\* The items of a list, as a set.
ItemSet(items) == { items[i] : i \in 1..Len(items) }

\* Some item of the list has this id.
HasId(items, id) == \E i \in 1..Len(items) : items[i].id = id

\* The item of the list with this id.
ItemOfId(items, id) == CHOOSE it \in ItemSet(items) : it.id = id

\* C24: find_content_changes(cached, fresh, field) returns added = the fresh
\* items whose id is not a cached id, deleted = the cached items whose id is
\* not a fresh id, and updated = the fresh items whose id is a cached id and
\* whose field value is outdated against the cached value; an item identical
\* in both lists is in none of the three.
C24_FindContentChanges ==
    IsFindChanges(call) =>
        LET cached == call.cached_items
            fresh == call.new_items
        IN  /\ ItemSet(call.ret.added) = { it \in ItemSet(fresh) : ~HasId(cached, it.id) }
            /\ ItemSet(call.ret.deleted) = { it \in ItemSet(cached) : ~HasId(fresh, it.id) }
            /\ ItemSet(call.ret.updated) =
                  { it \in ItemSet(fresh) :
                      /\ HasId(cached, it.id)
                      /\ IsContentOutdated(ItemOfId(cached, it.id).message, it.message) }
            /\ \A it \in ItemSet(cached) \cap ItemSet(fresh) :
                  it \notin ItemSet(call.ret.added) \cup ItemSet(call.ret.updated)
                            \cup ItemSet(call.ret.deleted)
            /\ Len(call.ret.added) = Cardinality(ItemSet(call.ret.added))
            /\ Len(call.ret.updated) = Cardinality(ItemSet(call.ret.updated))
            /\ Len(call.ret.deleted) = Cardinality(ItemSet(call.ret.deleted))

\* One call with an added, an updated and a deleted item, and with an item
\* whose text changed only in case, which is in none of the lists.
C24_Witness ==
    /\ IsFindChanges(call)
    /\ call.ret.added # <<>> /\ call.ret.deleted # <<>>
    /\ \E it \in ItemSet(call.new_items) :
          /\ HasId(call.cached_items, it.id)
          /\ ItemOfId(call.cached_items, it.id).message # it.message
          /\ it \notin ItemSet(call.ret.updated)

\* A call with an updated item and an item that is identical in both lists.
C24_WitnessUpdated ==
    /\ IsFindChanges(call)
    /\ call.ret.updated # <<>>
    /\ ItemSet(call.cached_items) \cap ItemSet(call.new_items) # {}

-----------------------------------------------------------------------------
\* C25: is_content_outdated.

IsOutdatedCall(c) == c.op = "is_content_outdated"

\* The similarity <<numerator, denominator>> is below the threshold 0.99.
BelowThreshold(similarity) ==
    similarity[1] * 100 < similarity_threshold_pct * similarity[2]

\* Exactly one of two texts is empty.
ExactlyOneEmpty(a, b) == (a = <<>>) # (b = <<>>)

\* C25: is_content_outdated(cached, fresh) returns true whenever exactly one
\* of the two texts is empty and false when both are empty; for two non-empty
\* texts it returns true if and only if their similarity is below the
\* threshold.
C25_IsContentOutdated ==
    IsOutdatedCall(call) =>
        /\ ExactlyOneEmpty(call.cached_text, call.new_text) => call.ret
        /\ (call.cached_text = <<>> /\ call.new_text = <<>>) => ~call.ret
        /\ (call.cached_text # <<>> /\ call.new_text # <<>>) =>
              (call.ret <=> BelowThreshold(call.similarity))

\* Two different non-empty texts that are equal once cleaned: not outdated.
C25_Witness ==
    /\ IsOutdatedCall(call)
    /\ call.cached_text # <<>> /\ call.new_text # <<>>
    /\ call.cached_text # call.new_text
    /\ ~call.ret

\* A non-empty text against the empty text: outdated.
C25_WitnessOneEmpty ==
    IsOutdatedCall(call) /\ call.cached_text = <<>> /\ call.new_text # <<>> /\ call.ret

(***************************************************************************)
(* One refresh cycle of the dispatches, await by await, and a reader       *)
(***************************************************************************)
\* The steps of a refresh cycle, by the call each one awaits.
StepEvict == "clear_outdated_cache"
StepTranslate == "_translate_and_cache_dispatches"
StepIndex == "store_content_list"
StepStamp == "update_refresh_timestamp"

\* A cycle that overwrites the index before it translates.
CycleOrderIndexFirst == <<StepEvict, StepIndex, StepTranslate, StepStamp>>

\* The awaits of the `if needs_refresh:` block of refresh_cache_if_needed, in
\* the order of the code.
CycleOrder == <<StepEvict, StepTranslate, StepIndex, StepStamp>>

\* The step a cycle takes after the steps in done.
CycleStepAfter(done) == CycleOrder[Len(done) + 1]

\* refresh_cache_if_needed up to its first await inside the refresh block:
\* the fetch and check_content_freshness.
cycle_begin(f) ==
    LET within == WithinInterval(since_refresh, "dispatches")
        top == Prefix(f.data, TopN)
        needs_refresh == CheckContentFreshness(since_refresh, index, store_up, "dispatches", top)
    IN  /\ cycle.pc = "idle"
        /\ IF NoData(f) \/ ~needs_refresh
           THEN /\ call' = DispatchCall("refresh_cache_if_needed", 0, within, FALSE, "False",
                                        <<>>, 1, 0, 0)
                /\ UNCHANGED cycle
           ELSE /\ cycle' = [pc |-> "running", items |-> top, done |-> <<>>, evicted |-> {},
                             within |-> within, translations |-> 0]
                /\ call' = DispatchCall("check_content_freshness", 0, within, FALSE, "True",
                                        <<>>, 1, 0, 0)
        /\ UNCHANGED <<cache, index, since_refresh, retry_tasks, rotation_running, adds, reader>>

\* The next await of the running cycle returns: the step it made is done.
refresh_step ==
    LET step == CycleStepAfter(cycle.done)
        done == Append(cycle.done, step)
    IN  /\ cycle.pc = "running"
        /\ \/ /\ step = StepEvict
              /\ cache' = ClearOutdatedCache(cache, store_up, "dispatches", IdsOf(cycle.items))
              /\ cycle' = [cycle EXCEPT !.done = done,
                                        !.evicted = { e.item_id : e \in cache \ cache' }]
              /\ call' = DispatchCall(step, 0, cycle.within, FALSE, "None", <<>>, 0, 0, 0)
              /\ UNCHANGED <<index, since_refresh, retry_tasks, rotation_running, adds>>
           \/ /\ step = StepTranslate
              /\ \E oc \in OutcomesFor(cycle.items) :
                    LET st == TranslateAndCacheDispatches(cycle.items, oc, 1, store_up,
                                                          PassStart(cache))
                    IN  /\ adds + st.added <= MaxDispatchAdds
                        /\ cache' = st.cache
                        /\ retry_tasks' = st.tasks
                        /\ rotation_running' = st.started
                        /\ adds' = adds + st.added
                        /\ cycle' = [cycle EXCEPT !.done = done,
                                                  !.translations = st.translations]
                        /\ call' = DispatchCall(step, 0, cycle.within, FALSE, "None", <<>>,
                                                0, 1, st.translations)
              /\ UNCHANGED <<index, since_refresh>>
           \/ /\ step = StepIndex
              /\ index' = StoreContentList(index, store_up, "dispatches", cycle.items)
              /\ cycle' = [cycle EXCEPT !.done = done]
              /\ call' = DispatchCall(step, 0, cycle.within, FALSE, "None", <<>>, 0, 0, 0)
              /\ UNCHANGED <<cache, since_refresh, retry_tasks, rotation_running, adds>>
           \/ /\ step = StepStamp
              /\ since_refresh' = UpdateRefreshTimestamp(since_refresh, "dispatches")
              /\ cycle' = [cycle EXCEPT !.done = done, !.pc = "idle"]
              /\ call' = RefreshCall(cycle.within, cycle.translations, cycle.evicted)
              /\ UNCHANGED <<cache, index, retry_tasks, rotation_running, adds>>
        /\ UNCHANGED reader

\* The ids a list read from the index has whose entries the running cycle has
\* evicted and whose index it has not yet overwritten.
StaleIds(items) ==
    IF cycle.pc = "running" /\ StepIndex \notin { cycle.done[i] : i \in 1..Len(cycle.done) }
    THEN IdsOf(items) \cap cycle.evicted
    ELSE {}

\* A reader calls get_dispatches(limit) and keeps the list it got.
reader_get(limit) ==
    /\ reader.pc = "idle"
    /\ get_dispatches(limit)
    /\ reader' = IF call'.ret = "list" /\ call'.items # <<>>
                 THEN [pc |-> "listed", items |-> call'.items,
                       stale |-> IF call'.cold THEN {} ELSE StaleIds(call'.items)]
                 ELSE NoReader
    /\ UNCHANGED cycle

\* The reader formats the list it got: format_dispatch_messages reads the
\* cache entry of every listed item.
reader_format ==
    /\ reader.pc = "listed"
    /\ format_dispatch_messages(reader.items)
    /\ reader' = NoReader
    /\ UNCHANGED cycle

CycleAdvance == AdvanceRefresh /\ UNCHANGED cycleVars

InitCycle == InitTr /\ InitQueueVars /\ InitCacheVars /\ InitRegistryVars /\ InitCycleVars /\ InitHttpVars /\ call = NoCall

NextCycle ==
    \/ \E f \in FetchResults :
          /\ cycle_begin(f)
          /\ UNCHANGED <<registryVars, httpVars, trVars, store_up, api_cache, q_pc, tasks_to_process, successful_tasks, in_flight, refreshing, loop_replaced>>
    \/ /\ refresh_step
       /\ UNCHANGED <<registryVars, httpVars, trVars, store_up, api_cache, q_pc, tasks_to_process, successful_tasks, in_flight, refreshing, loop_replaced>>
    \/ \E limit \in 1..MaxLimit :
          /\ reader_get(limit)
          /\ UNCHANGED <<registryVars, httpVars, trVars, store_up, api_cache, q_pc, tasks_to_process, successful_tasks, in_flight, refreshing, loop_replaced>>
    \/ /\ reader_format
       /\ UNCHANGED <<registryVars, httpVars, trVars, store_up, api_cache, q_pc, tasks_to_process, successful_tasks, in_flight, refreshing, loop_replaced>>
    \/ /\ CycleAdvance
       /\ UNCHANGED <<registryVars, httpVars, trVars, store_up, api_cache, q_pc, tasks_to_process, successful_tasks, in_flight, refreshing, loop_replaced>>

SpecCycle == InitCycle /\ [][NextCycle]_vars

-----------------------------------------------------------------------------
\* C26: the order of the steps of a refresh cycle.

\* The running cycle has finished one more step.
StepFinished == cycle'.done # cycle.done /\ cycle'.done # <<>>

\* C26: within one refresh cycle the steps finish in this order, each one
\* started only when the one before it has finished: eviction of the outdated
\* entries, translation and storing of the fresh items, overwrite of the
\* content index, update of the last-refresh timestamp.  Each step changes
\* only what it is about.
C26_StepsInOrder ==
    [][StepFinished =>
          LET n == Len(cycle'.done)
              step == cycle'.done[n]
          IN  /\ n = Len(cycle.done) + 1
              /\ n <= 4
              /\ step = <<StepEvict, StepTranslate, StepIndex, StepStamp>>[n]
              /\ SubSeq(cycle'.done, 1, n - 1) = cycle.done
              /\ step = StepEvict =>
                    cache' \subseteq cache /\ UNCHANGED <<index, since_refresh, retry_tasks>>
              /\ step = StepTranslate => UNCHANGED <<index, since_refresh>>
              /\ step = StepIndex =>
                    /\ UNCHANGED <<cache, since_refresh, retry_tasks>>
                    /\ store_up => index'["dispatches"] =
                          [i \in 1..Len(cycle.items) |-> IndexItem(cycle.items[i])]
              /\ step = StepStamp =>
                    /\ UNCHANGED <<cache, index, retry_tasks>>
                    /\ since_refresh'["dispatches"] = 0
                    /\ cycle'.pc = "idle"]_vars

\* A cycle has finished its four steps; it evicted an entry and translated.
C26_Witness ==
    /\ cycle.pc = "idle" /\ Len(cycle.done) = 4
    /\ IsRefresh(call) /\ call.ret = "True"
    /\ call.evicted # {} /\ call.translations > 0

-----------------------------------------------------------------------------
\* C27: what a reader sees of a running refresh cycle.

\* C27: a reader that interleaves with a running refresh cycle never gets,
\* from the content index, a list with an item whose cache entry that cycle
\* has already evicted.
C27_ReaderNeverSeesEvicted == reader.stale = {}

\* The same seen from the format step: while a cycle runs, every item of the
\* list the reader got from the index has a cache entry.
C27_ListedItemsHaveEntries ==
    (reader.pc = "listed" /\ cycle.pc = "running" /\ reader.stale # {}) =>
        \A id \in reader.stale :
            GetTranslatedContent(cache, store_up, "dispatches", id) # <<>>

-----------------------------------------------------------------------------
\* C29: the retry_count of a task when an attempt for it starts.

\* The last step started a translation attempt.
AttemptStarted(c) == c.op \in {"tick", "attempt_start"} /\ c.attempt # <<>>

\* C29: in every interleaving of add_retry_task with the ticks, no translation
\* attempt starts for a task whose retry_count is max_retry_count or more at
\* that moment.
C29_NoAttemptAtMaxCount ==
    AttemptStarted(call) => call.attempt[3] < max_retry_count

\* The first attempt of a tick, which starts inside the tick's own step, is
\* for a task below the limit.
C29_FirstAttemptBelowMax ==
    (call.op = "tick" /\ call.attempt # <<>>) => call.attempt[3] < max_retry_count

(***************************************************************************)
(* The retry queue with stop() and with store outages                      *)
(***************************************************************************)
InitQueueEnv == InitQueue

NextQueueEnv ==
    \/ NextQueue
    \/ queue_stop /\ UNCHANGED <<registryVars, cycleVars, httpVars, trVars, cacheVars>>
    \/ QueueStoreToggle /\ UNCHANGED <<registryVars, cycleVars, httpVars, trVars>>

SpecQueueEnv == InitQueueEnv /\ [][NextQueueEnv]_vars

-----------------------------------------------------------------------------
\* C28: the lock around the mutations of the task list.

\* A step changes the list or a field of a queued task (the passing of time
\* changes a task's age, not its created_at).
MutatesTasks == retry_tasks' # retry_tasks /\ call'.op # "advance"

\* C28: every mutation of the retry-task list and of a queued task's fields
\* (append, remove, clear, retry_count, created_at, original_text, metadata)
\* is made while the queue's lock is held.
C28_MutationsUnderLock == [][MutatesTasks => call'.op \in LockedSteps]_vars

\* The mutations of add_retry_task and of the two removals of a tick are made
\* under the lock: the only unlocked ones are the failure branch of an attempt
\* and the clear of stop().
C28_OnlyFailureAndStopUnlocked ==
    [][(MutatesTasks /\ call'.op \notin LockedSteps)
          => call'.op \in {"attempt_failed", "stop"}]_vars

-----------------------------------------------------------------------------
\* C30: the outcomes of a translation attempt.

\* The step ends the attempt in progress.
EndsAttempt == in_flight # None /\ in_flight' = None

SuccessfulKeys(keys) == { keys[j] : j \in 1..Len(keys) }

\* The task of the attempt in progress.
AttemptedTask == TaskAt(Head(tasks_to_process))

\* Failure: nothing is stored, the task stays queued with retry_count + 1 and
\* created_at reset, and every other task is as it was.
AttemptFailedPost ==
    LET i == FindTask(retry_tasks, Head(tasks_to_process)[1], Head(tasks_to_process)[2])
    IN  /\ call'.op = "attempt_failed"
        /\ cache' = cache
        /\ successful_tasks' = successful_tasks
        /\ Len(retry_tasks') = Len(retry_tasks)
        /\ retry_tasks'[i].retry_count = retry_tasks[i].retry_count + 1
        /\ retry_tasks'[i].age = 0
        /\ Key(retry_tasks'[i]) = Key(retry_tasks[i])
        /\ \A j \in 1..Len(retry_tasks) : j # i => retry_tasks'[j] = retry_tasks[j]

\* The cache holds the translation of the attempted task.
TranslationStored(c, task) ==
    \E e \in c : /\ e.content_type = task.content_type /\ e.item_id = task.item_id
                 /\ e.original_text = task.original_text
                 /\ e.translated_text # <<>> /\ e.translated_text # task.original_text

\* Success as the claim states it: the translation is in the cache and the
\* task is marked for the removal that ends the pass.
AttemptOkPost ==
    /\ call'.op = "attempt_ok"
    /\ retry_tasks' = retry_tasks
    /\ Head(tasks_to_process) \in SuccessfulKeys(successful_tasks')
    /\ TranslationStored(cache', AttemptedTask)

\* Success when store_translated_content may fail: the write is dropped while
\* the store does not answer.
AttemptOkPostBestEffort ==
    /\ call'.op = "attempt_ok"
    /\ retry_tasks' = retry_tasks
    /\ Head(tasks_to_process) \in SuccessfulKeys(successful_tasks')
    /\ IF store_up THEN TranslationStored(cache', AttemptedTask) ELSE cache' = cache

\* The removal that ends a pass removes exactly the translated tasks.
PassRemovesTranslated ==
    call'.op = "finish" =>
        retry_tasks' = SelectSeq(retry_tasks,
                                 LAMBDA t : Key(t) \notin SuccessfulKeys(successful_tasks))

\* C30 as stated: every translation attempt of a tick ends in exactly one of
\* two outcomes: success, where the translated content is stored in the cache
\* and the task is then removed from the queue; or failure, where the task
\* stays queued with retry_count increased by 1 and created_at reset.
C30_AttemptOutcomes ==
    [][/\ EndsAttempt => (AttemptOkPost \/ AttemptFailedPost)
       /\ PassRemovesTranslated]_vars

\* C30, amended: on success the translated content is stored in the cache
\* when the store accepts the write (the write is dropped while the store
\* fails) and the task is removed from the queue at the end of the pass; on
\* failure the task stays queued with retry_count increased by 1 and
\* created_at reset.  Every attempt ends in exactly one of the two.
C30_AttemptOutcomesBestEffort ==
    [][/\ EndsAttempt => (AttemptOkPostBestEffort \/ AttemptFailedPost)
       /\ PassRemovesTranslated]_vars

\* A pass has ended in which one attempt failed and one succeeded: the
\* translated task is gone, its translation is cached, the other task is
\* still queued with a counted failure.
C30_Witness ==
    /\ call.op = "finish"
    /\ cache # {}
    /\ \E i \in 1..Len(retry_tasks) :
          /\ retry_tasks[i].fails >= 1 /\ retry_tasks[i].retry_count >= 1
          /\ \A e \in cache : <<e.content_type, e.item_id>> # Key(retry_tasks[i])
    /\ \E e \in cache : FindTask(retry_tasks, e.content_type, e.item_id) = 0

(***************************************************************************)
(* The retry queue together with the translate_text calls it makes         *)
(***************************************************************************)
\* The max_retries argument of the queue's translate_text call.
QueueMaxRetries == 1

\* translate_text(task.original_text, "zh", max_retries=1), entered in the
\* step that starts an attempt.
QueueTranslateCall ==
    IF q_pc' = "awaiting" THEN TranslateBegin(in_flight', QueueMaxRetries)
    ELSE UNCHANGED trVars

\* The value translate_text returned reaches _process_retry_tasks.
QueueTranslateReturn == AttemptFinish(tr_result) /\ TranslateReturn

\* The failures of a request drawn in this specification: a response with a
\* status other than 200, and a timeout.
QueueFailureKinds == {"http_error", "timeout"}

InitAttempt == InitQueue

NextAttempt ==
    \/ \E ct \in QueueTypes, id \in Ids, text \in QueueTexts, meta \in Metas :
          add_retry_task(ct, id, text, meta) /\ UNCHANGED <<registryVars, cycleVars, httpVars, trVars, cacheVars>>
    \/ process_retry_queue /\ QueueTranslateCall /\ UNCHANGED <<registryVars, cycleVars, httpVars, index, since_refresh, store_up, api_cache>>
    \/ AttemptStart /\ QueueTranslateCall /\ UNCHANGED <<registryVars, cycleVars, httpVars, cacheVars>>
    \/ \E kind \in QueueFailureKinds :
          TranslateAttemptFails(kind) /\ UNCHANGED <<queueVars, cacheVars, registryVars, cycleVars, httpVars, call>>
    \/ \E answer \in ApiTexts(Strip(tr_text)) :
          TranslateAttemptAnswered(answer) /\ UNCHANGED <<queueVars, cacheVars, registryVars, cycleVars, httpVars, call>>
    \/ QueueTranslateReturn /\ UNCHANGED <<registryVars, cycleVars, httpVars, index, since_refresh, store_up, api_cache>>
    \/ FinishPass /\ UNCHANGED <<registryVars, cycleVars, httpVars, trVars, cacheVars>>
    \/ Advance /\ UNCHANGED <<registryVars, cycleVars, httpVars, trVars, cacheVars>>

SpecAttempt == InitAttempt /\ [][NextAttempt]_vars

-----------------------------------------------------------------------------
\* C31: the requests of one queue attempt.

\* The step in which translate_text returns to the queue.
AttemptReturns == tr_pc = "done" /\ tr_pc' = "idle"

\* C31: each attempt the retry queue makes for a task issues exactly one
\* request to the translation API.
C31_OneRequestPerAttempt == [][AttemptReturns => tr_requests = 1]_vars

\* An attempt issues one request when the first one is answered and two when
\* the first one fails: never more than QueueMaxRetries + 1.
C31_RequestsPerAttempt ==
    [][AttemptReturns =>
          /\ tr_requests \in 1..(QueueMaxRetries + 1)
          /\ tr_requests = 2 <=> tr_attempt = 1]_vars

(***************************************************************************)
(* exponential_backoff_retry, APIRetryMixin.retry_api_call and their       *)
(* callers (utils/api_retry.py, utils/hd2_api_manager.py, core/news.py)    *)
(***************************************************************************)
\* The status codes exponential_backoff_retry retries on.
retry_on_status == {429, 500, 502, 503, 504}

\* default_retry_config['max_retries']
BackoffMaxRetries == 3

\* The status codes of the responses drawn in the specification.
Statuses == {200, 404, 429, 503}

\* What a request raises instead of answering.
RaiseKinds == {"timeout", "exception"}

\* The keyword parameters of exponential_backoff_retry.
BackoffParams ==
    {"max_retries", "base_delay", "max_delay", "backoff_factor", "jitter", "retry_on_status"}

\* The keys of APIRetryMixin.default_retry_config.
DefaultRetryConfig ==
    {"max_retries", "base_delay", "max_delay", "backoff_factor", "jitter", "retry_on_status"}

\* The keyword arguments of the retry_api_call of each caller: DispatchService
\* and SteamService pass none, HD2ApiManager.get passes three.
RetryKwargs(caller) ==
    IF caller = "get" THEN {"base_delay", "max_delay", "increment"} ELSE {}

HttpCallers == {"fetch", "get"}

\* exponential_backoff_retry(func, **config) can be called: every key of the
\* config names a parameter of the function (else the call raises TypeError).
Binds(retry_kwargs) == (DefaultRetryConfig \cup retry_kwargs) \subseteq BackoffParams

\* retry_api_call(func, **retry_kwargs) up to the first request.
retry_api_call(caller) ==
    /\ http.pc = "idle"
    /\ http' = IF Binds(RetryKwargs(caller))
               THEN [pc |-> "request", caller |-> caller, attempt |-> 0, requests |-> 0,
                     status |-> 0, ret |-> "none"]
               ELSE [pc |-> "done", caller |-> caller, attempt |-> 0, requests |-> 0,
                     status |-> 0, ret |-> "raised"]
    /\ UNCHANGED call

\* `if attempt < max_retries: sleep; continue  else: return None`
BackoffRetry(h) ==
    IF h.attempt < BackoffMaxRetries
    THEN [h EXCEPT !.attempt = @ + 1, !.pc = "request"]
    ELSE [h EXCEPT !.pc = "done", !.ret = "None"]

\* One iteration of the loop in which func() answers with `status`.
backoff_response(status) ==
    /\ http.pc = "request"
    /\ LET h == [http EXCEPT !.requests = @ + 1, !.status = status]
       IN  http' = IF status = 200 THEN [h EXCEPT !.pc = "done", !.ret = "data"]
                   ELSE IF status \in retry_on_status THEN BackoffRetry(h)
                   ELSE [h EXCEPT !.pc = "done", !.ret = "None"]
    /\ UNCHANGED call

\* One iteration of the loop in which func() raises.
backoff_raises(kind) ==
    /\ http.pc = "request"
    /\ http' = BackoffRetry([http EXCEPT !.requests = @ + 1, !.status = 0])
    /\ UNCHANGED call

\* The caller gets the result (or the exception).
backoff_return ==
    /\ http.pc = "done"
    /\ http' = [http EXCEPT !.pc = "idle"]
    /\ call' = [op |-> http.caller, ret |-> http.ret, requests |-> http.requests]

\* The status of the response behind each outcome of a translate_text request.
StatusOf(kind, status) ==
    IF kind = "http_error" THEN status
    ELSE IF kind \in {"api_error", "bad_json"} THEN 200
    ELSE 0

InitHttp == InitTr /\ InitQueueVars /\ InitCacheVars /\ InitRegistryVars /\ InitCycleVars /\ InitHttpVars /\ call = NoCall

NextHttp ==
    \/ \E caller \in HttpCallers :
          retry_api_call(caller) /\ UNCHANGED <<queueVars, trVars, cacheVars, registryVars, cycleVars, tr_status>>
    \/ \E status \in Statuses :
          backoff_response(status) /\ UNCHANGED <<queueVars, trVars, cacheVars, registryVars, cycleVars, tr_status>>
    \/ \E kind \in RaiseKinds :
          backoff_raises(kind) /\ UNCHANGED <<queueVars, trVars, cacheVars, registryVars, cycleVars, tr_status>>
    \/ backoff_return /\ UNCHANGED <<queueVars, trVars, cacheVars, registryVars, cycleVars, tr_status>>
    \/ \E text \in TranslateInputs, m \in 0..MaxRetriesArg :
          TranslateBegin(text, m) /\ tr_status' = 0 /\ UNCHANGED <<queueVars, cacheVars, registryVars, cycleVars, http, call>>
    \/ \E kind \in FailureOutcomes, status \in Statuses \ {200} :
          TranslateAttemptFails(kind) /\ tr_status' = StatusOf(kind, status) /\ UNCHANGED <<queueVars, cacheVars, registryVars, cycleVars, http, call>>
    \/ \E answer \in ApiTexts(Strip(tr_text)) :
          TranslateAttemptAnswered(answer) /\ tr_status' = 200 /\ UNCHANGED <<queueVars, cacheVars, registryVars, cycleVars, http, call>>
    \/ TranslateReturn /\ UNCHANGED <<queueVars, cacheVars, registryVars, cycleVars, httpVars, call>>

SpecHttp == InitHttp /\ [][NextHttp]_vars

-----------------------------------------------------------------------------
\* C32: responses with a status outside the retryable set.

NonRetryable(status) == status # 0 /\ status # 200 /\ status \notin retry_on_status

\* The step is a request of exponential_backoff_retry answered with a
\* non-retryable status.
FetchGotNonRetryable ==
    http.pc = "request" /\ http'.requests = http.requests + 1 /\ NonRetryable(http'.status)

\* The step is a request of translate_text answered with a non-retryable status.
TranslateGotNonRetryable ==
    tr_pc = "request" /\ tr_requests' = tr_requests + 1 /\ NonRetryable(tr_status')

\* The game-data fetch half of C32: a non-retryable status ends the call of
\* exponential_backoff_retry with None and no further attempt.
C32_FetchNonRetryableEndsCall ==
    [][FetchGotNonRetryable => http'.pc = "done" /\ http'.ret = "None"]_vars

\* C32: in every upstream HTTP call, both the game-data fetch
\* (exponential_backoff_retry) and the translation call (translate_text), a
\* response whose status code is outside the retryable set (429, 500, 502,
\* 503, 504) ends the call as a failure with no further attempt.
C32_NonRetryableEndsCall ==
    [][/\ FetchGotNonRetryable => http'.pc = "done" /\ http'.ret = "None"
       /\ TranslateGotNonRetryable => tr_pc' = "done" /\ tr_result' = tr_text]_vars

-----------------------------------------------------------------------------
\* C36: HD2ApiManager.get.

\* C36: HD2ApiManager.get(endpoint) sends an HTTP request through the shared
\* retry helper and returns the parsed JSON payload when the upstream answers
\* with status 200, and returns None without raising when all attempts fail.
C36_GetReturnsDataOrNone ==
    (http.caller = "get" /\ http.pc = "done") =>
        /\ http.requests >= 1
        /\ http.ret \in {"data", "None"}
        /\ http.ret = "data" <=> http.status = 200

\* What the claim says of get holds of the callers that pass no keyword
\* argument (DispatchService and SteamService).
C36_FetchReturnsDataOrNone ==
    (http.caller = "fetch" /\ http.pc = "done") =>
        /\ http.requests \in 1..(BackoffMaxRetries + 1)
        /\ http.ret \in {"data", "None"}
        /\ http.ret = "data" <=> http.status = 200

\* get never sends a request: the call of the helper raises.
C36_GetAlwaysRaises ==
    (http.caller = "get" /\ http.pc = "done") => http.ret = "raised" /\ http.requests = 0

-----------------------------------------------------------------------------
\* C33: which items of a translate-and-cache pass are translated.

\* The stored entries of a dispatch.
EntriesOf(c, id) == { e \in c : e.content_type = "dispatches" /\ e.item_id = id }

\* The cache holds an entry of the item whose original_text is the item's text.
HasIdenticalEntry(c, item) == \E e \in EntriesOf(c, item.id) : e.original_text = item.message

\* The positions of the items a pass over `items` has to translate.
ToTranslate(c, items) == { n \in 1..Len(items) : ~HasIdenticalEntry(c, items[n]) }

\* The refresh of payload f runs the translate-and-cache pass.
RefreshRunsPass(f) == f.ok /\ refresh_cache(f)

ClearMaxId == 2

\* The entry stored under translation_cache:<ct>:<id>.
ClearEntry(ct, id) ==
    [content_type |-> ct, item_id |-> id, original_text |-> T_abc,
     translated_text |-> Zh(T_abc), metadata |-> Meta("m1")]

\* The caches drawn: any set of keys, one entry per key.
ClearCaches ==
    { { ClearEntry(k[1], k[2]) : k \in keys } : keys \in SUBSET (QueueTypes \X (1..ClearMaxId)) }

\* The content indexes drawn (<ct>_index keys).
ClearIndexes ==
    { [ct \in ContentTypes |-> IF ct \in types THEN <<[id |-> 1, message |-> T_abc]>> ELSE <<>>] :
        types \in SUBSET QueueTypes }

clear_outdated_cache(ct, current_item_ids) ==
    /\ call = NoCall
    /\ cache' = ClearOutdatedCache(cache, store_up, ct, current_item_ids)
    /\ call' = [op |-> "clear_outdated_cache", content_type |-> ct, ids |-> current_item_ids,
                 deleted |-> Cardinality(cache \ cache')]
    /\ UNCHANGED <<index, since_refresh, store_up, api_cache>>

InitClear ==
    /\ InitTr /\ InitQueueVars /\ InitRegistryVars /\ InitCycleVars /\ InitHttpVars
    /\ cache \in ClearCaches
    /\ index \in ClearIndexes
    /\ since_refresh = [ct \in ContentTypes |-> -1]
    /\ store_up \in BOOLEAN
    /\ api_cache = [name \in CacheNames |-> NotCached]
    /\ call = NoCall

NextClear ==
    \E ct \in QueueTypes, ids \in SUBSET (1..ClearMaxId) :
       clear_outdated_cache(ct, ids) /\ UNCHANGED <<queueVars, trVars, registryVars, cycleVars, httpVars>>

SpecClear == InitClear /\ [][NextClear]_vars

-----------------------------------------------------------------------------
\* C34: what clear_outdated_cache deletes and what it leaves.

IsClear(c) == c.op = "clear_outdated_cache"

\* The entries the call is to delete: of its content type, id not in ids.
Outdated(c, ct, ids) == { e \in c : e.content_type = ct /\ e.item_id \notin ids }

\* C34: clear_outdated_cache(content_type, ids) deletes exactly the cache
\* entries of that content type whose item id is not in ids: entries whose id
\* is in ids, entries of every other content type and all content-index keys
\* are left unchanged.
C34_DeletesExactlyOutdated ==
    [][IsClear(call') =>
          /\ cache' = cache \ Outdated(cache, call'.content_type, call'.ids)
          /\ index' = index]_vars

\* C34, amended: while the store answers, clear_outdated_cache deletes exactly
\* the entries of the content type whose id is not in ids; while the store
\* fails it deletes nothing.  Entries whose id is in ids, entries of every
\* other content type and the content indexes are left unchanged in both cases.
C34_DeletesExactlyOutdatedIfStoreAnswers ==
    [][IsClear(call') =>
          /\ cache' = IF store_up
                      THEN cache \ Outdated(cache, call'.content_type, call'.ids)
                      ELSE cache
          /\ index' = index]_vars

\* A call has deleted an entry and kept an entry of its type whose id is in
\* ids and an entry of another type whose id is not in ids.
C34_Witness ==
    /\ IsClear(call) /\ store_up
    /\ call.deleted >= 1
    /\ \E e \in cache : e.content_type = call.content_type /\ e.item_id \in call.ids
    /\ \E e \in cache : e.content_type # call.content_type /\ e.item_id \notin call.ids
    /\ index # [ct \in ContentTypes |-> <<>>]

-----------------------------------------------------------------------------
\* C35: an update whose fetcher fails.

\* The step is an _update_cache call (of a loop or of force_update) whose
\* fetcher returned no data or raised.
FailedFetchStep ==
    /\ call'.op \in {"update_loop", "force_update"}
    /\ call' # call \/ loop_fetching' # loop_fetching
    /\ call'.fetches = 1
    /\ ~call'.fetched

\* C35: when a config's fetcher returns no data or raises, the update writes
\* nothing to the store: the payload stored under the config's key by the last
\* successful update stays readable unchanged.
C35_FailedFetchWritesNothing ==
    [][FailedFetchStep =>
          /\ ~call'.wrote
          /\ api_cache' = api_cache
          /\ \A name \in CacheNames :
                /\ GetCachedData(api_cache', store_up', name) = GetCachedData(api_cache, store_up, name)
                /\ api_cache'[name] = last_payload'[name]]_vars

\* The fetcher of a loop has just failed after an earlier update stored a
\* payload, and the payload is still the one get_cached_data reads.
C35_Witness ==
    /\ call.op = "update_loop" /\ call.fetches = 1 /\ ~call.fetched
    /\ store_up
    /\ api_cache[call.name].stored
    /\ api_cache[call.name].data # <<>>
    /\ GetCachedData(api_cache, store_up, call.name) = last_payload[call.name]

-----------------------------------------------------------------------------
\* C37: add_retry_task while an attempt for the same pair is awaited.

\* The entries the step stores.
StoredInStep == cache' \ cache

\* C37: in every interleaving of add_retry_task with a running queue attempt
\* for the same (content_type, item_id), each cache entry the retry queue
\* stores pairs an original_text with the translation that was obtained for
\* exactly that original_text (the text the attempt sent to translate_text).
C37_StoredPairIsOfSentText ==
    [][(EndsAttempt /\ call'.op = "attempt_ok") =>
          \A e \in StoredInStep :
             /\ e.original_text = in_flight
             /\ e.translated_text \in TranslateTextResults(e.original_text) \ {e.original_text}]_vars

\* Without an add_retry_task between the start and the end of an attempt the
\* stored pair is the sent text and its translation.
C37_StoredPairIsOfSentTextIfUnchanged ==
    [][(EndsAttempt /\ call'.op = "attempt_ok" /\ AttemptedTask.original_text = in_flight) =>
          \A e \in StoredInStep :
             /\ e.original_text = in_flight
             /\ e.translated_text \in TranslateTextResults(e.original_text) \ {e.original_text}]_vars

(***************************************************************************)
(* Overlapping calls of SteamService.refresh_cache_if_needed               *)
(***************************************************************************)
\* get_latest_steam_update reaches its refresh_cache_if_needed call: the
\* cache manager has updates and the entry of the latest one is not valid.
ReaderRefreshes ==
    LET cached_updates == GetCachedData(api_cache, store_up, "hd2_steam_updates").data
    IN  /\ cached_updates # <<>>
        /\ ~IsValidSteamEntry(GetTranslatedContent(cache, store_up, "steam", cached_updates[1].id))

\* refresh_cache_if_needed of caller `who` up to the refresh block: the fetch
\* returned f, and check_content_freshness decides whether the cycle runs.
overlap_begin(who, f) ==
    LET latest_update == Prefix(f.data, 1)
        needs_refresh == CheckContentFreshness(since_refresh, index, store_up, "steam",
                                               latest_update)
    IN  /\ refreshing[who].pc = "idle"
        /\ who = "reader" => ReaderRefreshes
        /\ IF NoData(f) \/ ~needs_refresh
           THEN /\ call' = DispatchCall("steam_refresh_cache_if_needed", 0,
                                        WithinInterval(since_refresh, "steam"), FALSE, "False",
                                        <<>>, 1, 0, 0)
                /\ UNCHANGED refreshing
           ELSE /\ refreshing' = [refreshing EXCEPT ![who] = [pc |-> "running",
                                                              items |-> latest_update]]
                /\ call' = DispatchCall("check_content_freshness", 0,
                                        WithinInterval(since_refresh, "steam"), FALSE, "True",
                                        <<>>, 1, 0, 0)
        /\ UNCHANGED <<cache, index, since_refresh, api_cache>>

\* The refresh block of caller `who`: eviction, translation, index, stamp.
overlap_finish(who, ok_title, ok_content) ==
    LET updates_to_cache == refreshing[who].items
        cleared == ClearOutdatedCache(cache, store_up, "steam", IdsOf(updates_to_cache))
    IN  /\ refreshing[who].pc = "running"
        /\ cache' = TranslateAndCacheUpdate(cleared, store_up, updates_to_cache[1],
                                            ok_title, ok_content)
        /\ index' = StoreContentList(index, store_up, "steam", updates_to_cache)
        /\ since_refresh' = UpdateRefreshTimestamp(since_refresh, "steam")
        /\ refreshing' = [refreshing EXCEPT ![who] = NotRefreshing]
        /\ call' = DispatchCall("steam_refresh_cache_if_needed", 0, FALSE, FALSE, "True",
                                <<>>, 0, 1, SteamTranslations(cleared, store_up,
                                                              updates_to_cache[1]))
        /\ UNCHANGED api_cache

InitOverlap == InitTr /\ InitQueueVars /\ InitCacheVars /\ InitRegistryVars /\ InitCycleVars /\ InitHttpVars /\ call = NoCall

NextOverlap ==
    \/ \E who \in SteamCallers, f \in FetcherResults("hd2_steam_updates") :
          /\ overlap_begin(who, f)
          /\ UNCHANGED <<registryVars, httpVars, trVars, queueVars, store_up, cycle, reader, loop_replaced>>
    \/ \E who \in SteamCallers, ok_title, ok_content \in BOOLEAN :
          /\ overlap_finish(who, ok_title, ok_content)
          /\ UNCHANGED <<registryVars, httpVars, trVars, queueVars, store_up, cycle, reader, loop_replaced>>
    \/ /\ update_cache("hd2_steam_updates")
       /\ UNCHANGED <<registryVars, httpVars, trVars, queueVars, store_up, cycleVars>>
    \/ /\ AdvanceRefresh
       /\ UNCHANGED <<registryVars, httpVars, trVars, store_up, api_cache, q_pc, tasks_to_process, successful_tasks, in_flight, cycleVars>>
    \/ /\ StoreToggle
       /\ UNCHANGED <<registryVars, httpVars, trVars, api_cache, q_pc, tasks_to_process, successful_tasks, in_flight, cycleVars>>

SpecOverlap == InitOverlap /\ [][NextOverlap]_vars

-----------------------------------------------------------------------------
\* C38: overlapping refresh calls.

\* The callers that are inside the refresh block.
Running == { who \in SteamCallers : refreshing[who].pc = "running" }

\* C38: at most one refresh cycle (evict, translate, store index, stamp) per
\* content type is in progress at any time: two overlapping
\* refresh_cache_if_needed calls for the same content type never both run the
\* cycle.
C38_AtMostOneCycle == Cardinality(Running) <= 1

\* A call that begins after another call's cycle has finished, within the
\* minimum interval, does not run the cycle.
C38_NoCycleWithinInterval ==
    [][\A who \in SteamCallers :
          (refreshing[who].pc = "idle" /\ refreshing'[who].pc = "running")
             => ~WithinInterval(since_refresh, "steam")]_vars

-----------------------------------------------------------------------------
\* C39: retry tasks of items a refresh cycle has evicted.

\* A refresh cycle has just run with the store answering: the index holds the
\* ids of the fresh payload, and every other id is evicted.
CycleRan == call'.op = "refresh_cache_if_needed" /\ call'.ret = "True" /\ store_up

\* The dispatch ids a task is queued for.
QueuedDispatchIds(tasks) ==
    { tasks[i].item_id : i \in { j \in 1..Len(tasks) : tasks[j].content_type = "dispatches" } }

\* Once a cycle has run, no task is queued for an id absent from its payload.
C39_TaskLeavesWithItem ==
    [][CycleRan => QueuedDispatchIds(retry_tasks') \subseteq IdsOf(index'["dispatches"])]_vars

\* The retry queue stores an entry only for an id of the last cycle's payload.
C39_QueueWritesOnlyListedItems ==
    [][(call'.op = "retry_pass" /\ store_up /\ index["dispatches"] # <<>>) =>
          \A e \in cache' \ cache :
             e.content_type = "dispatches" => e.item_id \in IdsOf(index["dispatches"])]_vars

\* C39: a RetryTask never outlives its item: once a refresh cycle has evicted
\* an item of a content type (its id is absent from the fresh payload), no
\* RetryTask for that item stays queued and the retry queue writes no cache
\* entry for that item afterwards.
C39_TaskNeverOutlivesItem ==
    [][/\ CycleRan => QueuedDispatchIds(retry_tasks') \subseteq IdsOf(index'["dispatches"])
       /\ (call'.op = "retry_pass" /\ store_up /\ index["dispatches"] # <<>>) =>
             \A e \in cache' \ cache :
                e.content_type = "dispatches" => e.item_id \in IdsOf(index["dispatches"])]_vars

-----------------------------------------------------------------------------
\* C40: start() called while stop() awaits a task it has cancelled.

\* APICacheManager.start, called while stop() is suspended at `await task`:
\* stop() has set _is_running to False, so start() goes on, sets it to True
\* and stores a new task under every name.  No key is added, so the iteration
\* of stop() goes on over the same keys and reaches the new tasks.  A loop
\* stop() has not cancelled yet stays alive, its task replaced in the dict.
start_during_stop ==
    /\ stop_state.active
    /\ stop_state.left # update_tasks
    /\ ~is_running
    /\ cache_configs \subseteq update_tasks
    /\ \E immediate \in BOOLEAN :
       \E fo \in FetcherResults("hd2_major_orders") :
       \E fu \in FetcherResults("hd2_steam_updates") :
          LET f(n) == IF n = "hd2_major_orders" THEN fo ELSE fu
          IN  /\ is_running' = TRUE
              /\ api_cache' =
                    IF immediate
                    THEN [n \in CacheNames |->
                            IF n \in cache_configs
                            THEN UpdateCacheStore(api_cache, store_up, n, f(n))[n]
                            ELSE api_cache[n]]
                    ELSE api_cache
              /\ last_payload' =
                    [n \in CacheNames |->
                       IF immediate /\ n \in cache_configs /\ UpdateCacheOk(store_up, f(n))
                       THEN CachedData(f(n).data) ELSE last_payload[n]]
              /\ update_tasks' = cache_configs
              /\ loop_replaced' = loop_replaced \cup (stop_state.left \cap loop_live \cap cache_configs)
              /\ loop_live' = loop_live \cup cache_configs
              /\ loop_sleeping' = loop_sleeping \ cache_configs
              /\ loop_fetching' = loop_fetching \ cache_configs
              /\ loop_failed' = loop_failed \ cache_configs
              /\ call' = RegistryCall("start_during_stop", "", "None",
                                      IF immediate THEN Cardinality(cache_configs) ELSE 0,
                                      FALSE, FALSE)
              /\ UNCHANGED <<cache_configs, stop_state>>

\* One round of an update loop whose task was replaced: it finds the manager
\* running, calls its fetcher and stores the data.
replaced_loop(name) ==
    /\ is_running
    /\ name \in loop_replaced
    /\ \E f \in FetcherResults(name) :
          /\ api_cache' = UpdateCacheStore(api_cache, store_up, name, f)
          /\ last_payload' = PayloadAfter(last_payload, store_up, name, f)
          /\ call' = RegistryCall("replaced_loop", name,
                                  IF UpdateCacheOk(store_up, f) THEN "True" ELSE "False",
                                  1, f.ok, UpdateCacheOk(store_up, f))
    /\ UNCHANGED <<cache_configs, is_running, update_tasks, loop_sleeping, loop_live,
                   loop_fetching, stop_state, loop_failed, loop_replaced>>

\* An update loop whose task was replaced finds the manager not running and
\* returns.
replaced_loop_exit(name) ==
    /\ ~is_running
    /\ name \in loop_replaced
    /\ loop_replaced' = loop_replaced \ {name}
    /\ call' = RegistryCall("replaced_loop_exit", name, "None", 0, FALSE, FALSE)
    /\ UNCHANGED <<api_cache, registryVars>>

InitStartStop == InitRegistry

\* The fetchers of this specification return None or the empty list: the
\* loops are counted here, their payloads are not.
NoItemFetched == \A n \in CacheNames : api_cache'[n].data = <<>>

\* Every cache is registered before the manager is started, as HD2Cache does.
NextStartStop ==
    \/ \E name \in CacheNames :
          /\ ~is_running /\ ~stop_state.active
          /\ register_cache(name)
          /\ UNCHANGED <<cycleVars, httpVars, trVars, queueVars, cache, index, since_refresh, store_up>>
    \/ start /\ NoItemFetched /\ UNCHANGED <<cycleVars, httpVars, trVars, queueVars, cache, index, since_refresh, store_up>>
    \/ /\ start_during_stop
       /\ NoItemFetched
       /\ UNCHANGED <<cycle, reader, refreshing, httpVars, trVars, queueVars, cache, index, since_refresh, store_up>>
    \/ stop /\ UNCHANGED <<cycleVars, httpVars, trVars, queueVars, cache, index, since_refresh, store_up>>
    \/ \E name \in CacheNames :
          update_loop_begin(name) /\ UNCHANGED <<cycleVars, httpVars, trVars, queueVars, cache, index, since_refresh, store_up>>
    \/ \E name \in CacheNames :
          update_loop(name) /\ NoItemFetched /\ UNCHANGED <<cycleVars, httpVars, trVars, queueVars, cache, index, since_refresh, store_up>>
    \/ \E name \in CacheNames :
          loop_exit(name) /\ UNCHANGED <<cycleVars, httpVars, trVars, queueVars, cache, index, since_refresh, store_up>>
    \/ \E name \in CacheNames :
          loop_wake(name) /\ UNCHANGED <<cycleVars, httpVars, trVars, queueVars, cache, index, since_refresh, store_up>>
    \/ \E name \in CacheNames :
          /\ replaced_loop(name)
          /\ NoItemFetched
          /\ UNCHANGED <<cycle, reader, refreshing, httpVars, trVars, queueVars, cache, index, since_refresh, store_up>>
    \/ \E name \in CacheNames :
          /\ replaced_loop_exit(name)
          /\ UNCHANGED <<cycle, reader, refreshing, httpVars, trVars, queueVars, cache, index, since_refresh, store_up>>
    \/ RegistryStoreToggle /\ UNCHANGED <<cycleVars, httpVars, trVars, queueVars, cache, index, since_refresh>>

SpecStartStop == InitStartStop /\ [][NextStartStop]_vars

\* The number of live update loops of name.
LiveLoops(name) ==
    (IF name \in loop_live THEN 1 ELSE 0) + (IF name \in loop_replaced THEN 1 ELSE 0)

\* The manager is running and neither start() nor stop() is in progress.
RunningAtRest == is_running /\ ~stop_state.active

\* C40: in every interleaving of start() and stop() calls, whenever
\* _is_running is true and no start() or stop() call is in progress, each
\* config registered before the latest start() has exactly one live update
\* loop.
C40_OneLoopPerConfig ==
    RunningAtRest => \A name \in cache_configs : LiveLoops(name) = 1

\* With start() and stop() never overlapping, every task start() has stored
\* is a live update loop while the manager is running.
C40_OneLoopWithoutOverlap ==
    RunningAtRest => (update_tasks \subseteq loop_live /\ loop_replaced = {})

=============================================================================
